---- MODULE Spec2Model ----
(***************************************************************************)
(* Table-joining and metric-derivation layer of the product usage          *)
(* dashboard (src/app.py): load_data, create_corrected_analysis, the       *)
(* retention calculators and build_funnel_data, as state machines over     *)
(* small tables.                                                           *)
(*                                                                         *)
(* A table (pandas DataFrame, or None) is a record                         *)
(*   [present |-> BOOLEAN, cols |-> set of column names, rows |-> Seq(row)] *)
(* and a row is a function from the table's columns to cell values.        *)
(* A string cell is a sequence of one-character strings, so that           *)
(* str.contains, str.strip and str.lower are computed, not assumed.        *)
(***************************************************************************)
EXTENDS Integers, Sequences, FiniteSets, TLC

VARIABLES
    files,      \* data/*.csv on disk: file key -> table (present = FALSE: no file)
    denyfile,   \* data/excluded_companies.json: [exists, mtime, readable, names]
    cache,      \* st.cache_data store of load_data: cache key -> cached return value
    data,       \* the dict load_data returned to main (data.loaded = FALSE: none yet)
    served,     \* the last request of main: [done, hit, deny, warnings]
    funnel,     \* the last result of build_funnel_data
    signups_df, \* first argument of the retention calculators (the filtered view)
    user_sessions_df, \* second argument of calculate_retention_curve
    today,      \* pd.Timestamp.now().normalize(), as a day number
    retention,  \* the last result of calculate_retention_curve
    cohort,     \* the last result of calculate_cohort_retention
    session_state, \* st.session_state of the browser session: key -> value
    overview,   \* the last stage summary drawn by render_overview
    notebook,   \* the .ipynb file update_nb.py patches: [exists, cells, ...]
    pc          \* position of the request/render cycle

vars == <<files, denyfile, cache, data, served, funnel, signups_df,
          user_sessions_df, today, retention, cohort, session_state, overview,
          notebook, pc>>

-----------------------------------------------------------------------------
(* Bounds of the model *)

MaxSignups == 2     \* rows of signups.csv
MaxWrites == 2      \* rows and headers written to the seven source files
MaxViewWrites == 3  \* rows and headers written to the sources of a funnel view
MaxLoadWrites == 2  \* rows and headers written to signups.csv and analysis_combined.csv
MaxMtime == 2       \* edits of excluded_companies.json

-----------------------------------------------------------------------------
(* Cells *)

\* pandas NaN / NaT / None: a cell without a value.  Every numeric cell of
\* the model (ids, counts, amounts, day numbers) is >= 0.
NaN == 0 - 1

IsNa(x) == x = NaN

\* Series.fillna(v)
FillNa(x, v) == IF IsNa(x) THEN v ELSE x

\* Series.isin(values): pandas matches a NaN cell against a NaN among the
\* values, which is what equality on the NaN cell gives here.
IsIn(x, values) == x \in values

\* numeric comparison of pandas: any comparison with NaN is False
Gt(x, y) == ~IsNa(x) /\ ~IsNa(y) /\ x > y
Ge(x, y) == ~IsNa(x) /\ ~IsNa(y) /\ x >= y

-----------------------------------------------------------------------------
(* Strings: sequences of one-character strings *)

UpperChars == <<"A","B","C","D","E","F","G","H","I","J","K","L","M",
                "N","O","P","Q","R","S","T","U","V","W","X","Y","Z">>
LowerChars == <<"a","b","c","d","e","f","g","h","i","j","k","l","m",
                "n","o","p","q","r","s","t","u","v","w","x","y","z">>

LowerChar(c) ==
    IF \E i \in 1..Len(UpperChars) : UpperChars[i] = c
    THEN LowerChars[CHOOSE i \in 1..Len(UpperChars) : UpperChars[i] = c]
    ELSE c

\* str.lower()
StrLower(s) == [i \in 1..Len(s) |-> LowerChar(s[i])]

\* str.strip(): leading and trailing whitespace removed
RECURSIVE LStrip(_)
LStrip(s) == IF s # <<>> /\ Head(s) = " " THEN LStrip(Tail(s)) ELSE s

RECURSIVE RStrip(_)
RStrip(s) ==
    IF s # <<>> /\ s[Len(s)] = " " THEN RStrip(SubSeq(s, 1, Len(s) - 1)) ELSE s

StrStrip(s) == RStrip(LStrip(s))

\* needle occurs in s (case-sensitive)
Contains(s, needle) ==
    \E i \in 1..(Len(s) - Len(needle) + 1) :
        SubSeq(s, i, i + Len(needle) - 1) = needle

\* Series.str.contains(needle, case=False, na=False) on one cell; the NaN
\* cell of a string column is NoStr
NoStr == <<"<NA>">>

ContainsCI(s, needle) ==
    IF s = NoStr THEN FALSE ELSE Contains(StrLower(s), StrLower(needle))

-----------------------------------------------------------------------------
(* Tables *)

None == [present |-> FALSE, cols |-> {}, rows |-> <<>>]

Table(cols, rows) == [present |-> TRUE, cols |-> cols, rows |-> rows]

\* `df is not None and len(df) > 0`
NonEmpty(t) == t.present /\ Len(t.rows) > 0

\* df[mask]: the rows satisfying Keep, in order
Filter(t, Keep(_)) == [t EXCEPT !.rows = SelectSeq(t.rows, Keep)]

\* df[c] = f(row) for every row (a new or an overwritten column)
WithCol(t, c, F(_)) ==
    [t EXCEPT !.cols = @ \cup {c},
              !.rows = [i \in 1..Len(t.rows) |-> (c :> F(t.rows[i])) @@ t.rows[i]]]

\* the values of column c
Column(t, c) == {t.rows[i][c] : i \in 1..Len(t.rows)}

RECURSIVE Flatten(_)
Flatten(ss) == IF ss = <<>> THEN <<>> ELSE Head(ss) \o Flatten(Tail(ss))

\* left.merge(right, on='company_id', how='left'): every left row, in order,
\* once per right row with an equal key (NaN keys match each other), or
\* once with NaN in the right's columns when no right row matches
MergeRow(l, right) ==
    LET m == SelectSeq(right.rows, LAMBDA r : r.company_id = l.company_id)
        add == right.cols \ {"company_id"}
    IN  IF m = <<>>
        THEN << [c \in add |-> NaN] @@ l >>
        ELSE [j \in 1..Len(m) |-> [c \in add |-> m[j][c]] @@ l]

LeftMerge(left, right) ==
    [present |-> TRUE,
     cols |-> left.cols \cup right.cols,
     rows |-> Flatten([i \in 1..Len(left.rows) |-> MergeRow(left.rows[i], right)])]

\* ascending sequence of a finite set of numbers
RECURSIVE SortedSeq(_)
SortedSeq(S) ==
    IF S = {} THEN <<>>
    ELSE LET m == CHOOSE x \in S : \A y \in S : x <= y
         IN  <<m>> \o SortedSeq(S \ {m})

RECURSIVE SumSeq(_)
SumSeq(s) == IF s = <<>> THEN 0 ELSE Head(s) + SumSeq(Tail(s))

\* the group keys of df.groupby('company_id'): NaN keys are dropped
GroupKeys(t) == SortedSeq(Column(t, "company_id") \ {NaN})

\* df.groupby('company_id').size().reset_index(name=c)
GroupSize(t, c) ==
    LET keys == GroupKeys(t)
    IN  Table({"company_id", c},
              [k \in 1..Len(keys) |->
                  [company_id |-> keys[k]] @@
                  (c :> Len(SelectSeq(t.rows, LAMBDA r : r.company_id = keys[k])))])

\* df.groupby('company_id')[cs].sum().reset_index(): NaN cells count as 0
GroupSum(t, cs) ==
    LET keys == GroupKeys(t)
        grp(k) == SelectSeq(t.rows, LAMBDA r : r.company_id = k)
        tot(k, c) == SumSeq([j \in 1..Len(grp(k)) |-> FillNa(grp(k)[j][c], 0)])
    IN  Table({"company_id"} \cup cs,
              [k \in 1..Len(keys) |->
                  [company_id |-> keys[k]] @@ [c \in cs |-> tot(keys[k], c)]])

\* number of rows with a True cell in column c: df[c].sum() of a bool column
CountTrue(t, c) == Len(SelectSeq(t.rows, LAMBDA r : r[c] = TRUE))

-----------------------------------------------------------------------------
(* Identity normalizer *)

\* pd.to_numeric(cell, errors='coerce') on the text of a CSV cell: a decimal
\* integer, with or without a float's ".0", parses to its number; anything
\* else becomes NaN
ToNumeric(x) ==
    CASE x = "1" -> 1
      [] x = "1.0" -> 1
      [] x = "2" -> 2
      [] x = "2.0" -> 2
      [] OTHER -> NaN

\* t['company_id'] = pd.to_numeric(t['company_id'], errors='coerce')
CoerceIds(t) == WithCol(t, "company_id", LAMBDA r : ToNumeric(r.company_id))

\* df[[c1, c2, ...]]
Project(t, cs) ==
    [t EXCEPT !.cols = cs,
              !.rows = [i \in 1..Len(t.rows) |-> [c \in cs |-> t.rows[i][c]]]]

\* df.columns = [n1, n2, ...]: columns renamed by position
Rename(t, old, new) ==
    [t EXCEPT !.cols = {new[k] : k \in 1..Len(new)},
              !.rows = [i \in 1..Len(t.rows) |->
                          [c \in {new[k] : k \in 1..Len(new)} |->
                              t.rows[i][old[CHOOSE k \in 1..Len(new) : new[k] = c]]]]]

-----------------------------------------------------------------------------
(* create_corrected_analysis, built from signups: one block per source *)

Brain == <<"B","r","a","i","n">>
Connect == <<"C","o","n","n","e","c","t">>

SubscriptionCols ==
    {"has_subscription", "has_active", "has_trialing", "has_brain_studio",
     "brain_active", "has_connect", "connect_active", "connect_trialing"}

\* ids of the rows of a sequence of rows (`[...]['company_id'].unique()`)
IdsOf(rows) == {rows[i].company_id : i \in 1..Len(rows)}

JoinSubscriptions(signups, subscriptions) ==
    IF NonEmpty(subscriptions)
    THEN LET subs == CoerceIds(subscriptions).rows
             companies_with_subs == IdsOf(subs) \ {NaN}
             status(st) == SelectSeq(subs, LAMBDA r : r.status = st)
             brain_subs == SelectSeq(subs, LAMBDA r : ContainsCI(r.product_name, Brain))
             connect_subs == SelectSeq(subs, LAMBDA r : ContainsCI(r.product_name, Connect))
             flags(r) ==
                 [has_subscription |-> IsIn(r.company_id, companies_with_subs),
                  has_active |-> IsIn(r.company_id, IdsOf(status("ACTIVE"))),
                  has_trialing |-> IsIn(r.company_id, IdsOf(status("TRIALING"))),
                  has_brain_studio |-> IsIn(r.company_id, IdsOf(brain_subs)),
                  brain_active |->
                      IsIn(r.company_id,
                           IdsOf(SelectSeq(brain_subs, LAMBDA s : s.status = "ACTIVE"))),
                  has_connect |-> IsIn(r.company_id, IdsOf(connect_subs)),
                  connect_active |->
                      IsIn(r.company_id,
                           IdsOf(SelectSeq(connect_subs, LAMBDA s : s.status = "ACTIVE"))),
                  connect_trialing |->
                      IsIn(r.company_id,
                           IdsOf(SelectSeq(connect_subs, LAMBDA s : s.status = "TRIALING")))]
         IN  [signups EXCEPT
                 !.cols = @ \cup SubscriptionCols,
                 !.rows = [i \in 1..Len(signups.rows) |->
                              flags(signups.rows[i]) @@ signups.rows[i]]]
    ELSE [signups EXCEPT
             !.cols = @ \cup SubscriptionCols,
             !.rows = [i \in 1..Len(signups.rows) |->
                          [c \in SubscriptionCols |-> FALSE] @@ signups.rows[i]]]

\* line 344 assigns the coerced ids to the caller's subscriptions table itself
SubscriptionsAfter(subscriptions) ==
    IF NonEmpty(subscriptions) THEN CoerceIds(subscriptions) ELSE subscriptions

JoinBots(signups, bots) ==
    IF NonEmpty(bots)
    THEN LET bot_companies == IdsOf(bots.rows)
             prod_bots == SelectSeq(bots.rows,
                                    LAMBDA b : b.in_production = 1 /\ b.state = 1)
             prod_companies == IdsOf(prod_bots)
             s1 == WithCol(signups, "has_bot",
                           LAMBDA r : IsIn(r.company_id, bot_companies))
             s2 == WithCol(s1, "has_prod_channel",
                           LAMBDA r : IsIn(r.company_id, prod_companies))
             s3 == LeftMerge(s2, GroupSize(bots, "bot_count"))
         IN  WithCol(s3, "bot_count", LAMBDA r : FillNa(r.bot_count, 0))
    ELSE WithCol(WithCol(WithCol(signups,
             "has_bot", LAMBDA r : FALSE),
             "has_prod_channel", LAMBDA r : FALSE),
             "bot_count", LAMBDA r : 0)

JoinCreditWallet(signups, credit_wallet) ==
    IF NonEmpty(credit_wallet)
    THEN LET used_companies ==
                 IdsOf(SelectSeq(credit_wallet.rows, LAMBDA w : Gt(w.total_used, 0)))
             exceeded_companies ==
                 IdsOf(SelectSeq(credit_wallet.rows, LAMBDA w : w.exceeded_free_tier = 1))
         IN  WithCol(WithCol(signups,
                 "used_conversations", LAMBDA r : IsIn(r.company_id, used_companies)),
                 "exceeded_free_tier", LAMBDA r : IsIn(r.company_id, exceeded_companies))
    ELSE WithCol(WithCol(signups,
             "used_conversations", LAMBDA r : FALSE),
             "exceeded_free_tier", LAMBDA r : FALSE)

JoinStripeInvoices(signups, stripe_invoices) ==
    IF NonEmpty(stripe_invoices)
    THEN LET paid_invoices == Filter(stripe_invoices, LAMBDA v : Gt(v.amount_paid, 0))
             paid_companies == IdsOf(paid_invoices.rows)
             paid_summary ==
                 Rename(GroupSum(paid_invoices, {"amount_paid"}),
                        <<"company_id", "amount_paid">>, <<"company_id", "total_paid">>)
             s1 == WithCol(signups, "actually_paid",
                           LAMBDA r : IsIn(r.company_id, paid_companies))
             s2 == LeftMerge(s1, paid_summary)
         IN  WithCol(s2, "total_paid", LAMBDA r : FillNa(r.total_paid, 0))
    ELSE WithCol(WithCol(signups,
             "actually_paid", LAMBDA r : FALSE),
             "total_paid", LAMBDA r : 0)

JoinTemplateUsage(signups, template_usage) ==
    IF NonEmpty(template_usage)
    THEN LET tu == CoerceIds(template_usage)
             tu_summary == GroupSum(tu, {"total_events", "created_templates"})
             s1 == LeftMerge(signups, tu_summary)
             s2 == WithCol(s1, "created_templates",
                           LAMBDA r : FillNa(r.created_templates, 0))
         IN  WithCol(s2, "has_template_usage", LAMBDA r : r.created_templates > 0)
    ELSE WithCol(WithCol(signups,
             "created_templates", LAMBDA r : 0),
             "has_template_usage", LAMBDA r : FALSE)

JoinEngagement(signups, engagement) ==
    IF NonEmpty(engagement)
    THEN LET eng == CoerceIds(engagement)
             s1 == LeftMerge(signups,
                     Project(eng, {"company_id", "sandbox_executions", "prod_executions"}))
             s2 == WithCol(s1, "has_workflow",
                     LAMBDA r : FillNa(r.sandbox_executions, 0)
                                + FillNa(r.prod_executions, 0) > 0)
             s3 == WithCol(s2, "has_sandbox",
                     LAMBDA r : FillNa(r.sandbox_executions, 0) > 0)
         IN  WithCol(s3, "has_prod_exec", LAMBDA r : FillNa(r.prod_executions, 0) > 0)
    ELSE WithCol(WithCol(WithCol(signups,
             "has_workflow", LAMBDA r : FALSE),
             "has_sandbox", LAMBDA r : FALSE),
             "has_prod_exec", LAMBDA r : FALSE)

SessionsDurationRaw ==
    <<"_id", "tiempoTotalMinutos", "promedioSesionMinutos", "totalSesiones">>
SessionsDurationNames ==
    <<"company_id", "total_time_minutes", "avg_session_minutes", "session_count">>

JoinSessionsDuration(signups, sessions_duration) ==
    IF NonEmpty(sessions_duration)
    THEN LET sd == CoerceIds(Rename(sessions_duration,
                                    SessionsDurationRaw, SessionsDurationNames))
             s1 == LeftMerge(signups, sd)
             s2 == WithCol(s1, "total_time_minutes",
                           LAMBDA r : FillNa(r.total_time_minutes, 0))
             s3 == WithCol(s2, "avg_session_minutes",
                           LAMBDA r : FillNa(r.avg_session_minutes, 0))
         IN  WithCol(s3, "session_count_sd", LAMBDA r : FillNa(r.session_count, 0))
    ELSE WithCol(WithCol(WithCol(signups,
             "total_time_minutes", LAMBDA r : 0),
             "avg_session_minutes", LAMBDA r : 0),
             "session_count_sd", LAMBDA r : 0)

\* lines 334-484: the joined table built from data['signups']
BuildFromSignups(d) ==
    LET s1 == JoinSubscriptions(d.signups, d.subscriptions)
        s2 == JoinBots(s1, d.bots)
        s3 == JoinCreditWallet(s2, d.credit_wallet)
        s4 == JoinStripeInvoices(s3, d.stripe_invoices)
        s5 == JoinTemplateUsage(s4, d.template_usage)
        s6 == JoinEngagement(s5, d.company_engagement)
    IN  JoinSessionsDuration(s6, d.sessions_duration)

-----------------------------------------------------------------------------
(* Exclusion filter *)

JelouDomain == <<"@","j","e","l","o","u",".","a","i">>
Jelou == <<"j","e","l","o","u">>
Impersonate == <<"i","m","p","e","r","s","o","n","a","t","e">>

\* [name.strip().lower() for name in excluded_data.get('excluded_companies', [])]
ExcludedNames(deny) == {StrLower(StrStrip(n)) : n \in deny.names}

\* ~df['company_name'].str.strip().str.lower().isin(excluded_names); a NaN
\* name stays NaN and is in no list
NameListed(r, excluded_names) ==
    r.company_name # NoStr /\ StrLower(StrStrip(r.company_name)) \in excluded_names

\* a variant of the signup filters that compares the name as written and
\* leaves the names stripped and lowered in the table
ExcludeSignups_NormalizeAfter(signups, deny) ==
    LET s1 == IF "email" \in signups.cols
              THEN Filter(signups, LAMBDA r : ~ContainsCI(r.email, JelouDomain))
              ELSE signups
        s2 == IF "slug" \in s1.cols
              THEN Filter(s1, LAMBDA r : ~ContainsCI(r.slug, Jelou))
              ELSE s1
    IN  IF deny.exists /\ deny.readable
           /\ "company_name" \in s2.cols /\ ExcludedNames(deny) # {}
        THEN WithCol(Filter(s2, LAMBDA r : r.company_name \notin ExcludedNames(deny)),
                     "company_name",
                     LAMBDA r : IF r.company_name = NoStr THEN NoStr
                                ELSE StrLower(StrStrip(r.company_name)))
        ELSE s2

\* load_data, lines 161-198: the three filters on data['signups'].  An
\* unreadable file raises in json.load and the except clause only prints.
ExcludeSignups(signups, deny) ==
    LET s1 == IF "email" \in signups.cols
              THEN Filter(signups, LAMBDA r : ~ContainsCI(r.email, JelouDomain))
              ELSE signups
        s2 == IF "slug" \in s1.cols
              THEN Filter(s1, LAMBDA r : ~ContainsCI(r.slug, Jelou))
              ELSE s1
    IN  IF deny.exists /\ deny.readable
           /\ "company_name" \in s2.cols /\ ExcludedNames(deny) # {}
        THEN Filter(s2, LAMBDA r : ~NameListed(r, ExcludedNames(deny)))
        ELSE s2

\* create_corrected_analysis, lines 228-257: the filters on a precomputed
\* table; astype(str) turns a NaN cell into the text "nan", which contains
\* none of the needles
ExcludeAnalysis(result, deny) ==
    LET r1 == IF "email" \in result.cols
              THEN Filter(Filter(result,
                       LAMBDA r : ~ContainsCI(r.email, JelouDomain)),
                       LAMBDA r : ~ContainsCI(r.email, Impersonate))
              ELSE result
        r2 == IF "slug" \in r1.cols
              THEN Filter(r1, LAMBDA r : ~ContainsCI(r.slug, Jelou))
              ELSE r1
    IN  IF deny.exists /\ "company_name" \in r2.cols
           /\ deny.readable /\ ExcludedNames(deny) # {}
        THEN Filter(r2, LAMBDA r : ~NameListed(r, ExcludedNames(deny)))
        ELSE r2

-----------------------------------------------------------------------------
(* create_corrected_analysis *)

\* line 212: the marker columns of a table precomputed in the notebook
IsPrecomputed(analysis) ==
    analysis.present /\ {"retained_week1", "bot_count"} \subseteq analysis.cols

\* lines 216-226: session durations merged into a precomputed table that
\* lacks them (its ids are numeric already: to_numeric leaves them as read)
BackfillSessionsDuration(result, sessions_duration) ==
    IF sessions_duration.present /\ "total_time_minutes" \notin result.cols
    THEN LET sd == CoerceIds(Rename(sessions_duration,
                                    SessionsDurationRaw, SessionsDurationNames))
             s1 == LeftMerge(result, sd)
             s2 == WithCol(s1, "total_time_minutes",
                           LAMBDA r : FillNa(r.total_time_minutes, 0))
             s3 == WithCol(s2, "avg_session_minutes",
                           LAMBDA r : FillNa(r.avg_session_minutes, 0))
         IN  WithCol(s3, "session_count_sd", LAMBDA r : FillNa(r.session_count, 0))
    ELSE result

\* lines 289-302: the flag column of a node type
NodeTypeFlagName(value) ==
    CASE value = 3 -> "node_type_message"
      [] value = 5 -> "node_type_code"
      [] value = 14 -> "node_type_conditional"
      [] value = 16 -> "node_type_skill"
      [] value = 18 -> "node_type_memory"
      [] OTHER -> "node_type_" \o ToString(value)

NodesUsedCols == {"company_id", "nodeTypeId", "nodes_created"}

\* the node types of data/nodes_used.csv in the samples
NodeTypeIds == {3, 7}

\* the node types a table of the samples may have a flag column for
FlagTypeIds == {3, 5, 14, 16, 18, 7}

\* the columns whose name starts with 'node_type_'
NodeTypeCols(cols) ==
    cols \cap ({NodeTypeFlagName(v) : v \in FlagTypeIds} \cup {"node_type_other"})

\* sum of nodes_created over the rows satisfying Keep
NodesCreated(nodes, Keep(_)) ==
    SumSeq([i \in 1..Len(nodes.rows) |->
               IF Keep(nodes.rows[i]) THEN nodes.rows[i].nodes_created ELSE 0])

\* lines 259-330: node type flags merged into a precomputed table that has
\* none, from data/nodes_used.csv read off the disk; an exception ends the
\* merge where it stands.  nodeTypeId and the ids of the table are numeric
\* as read (to_numeric leaves them); ties among the top 5 are broken freely.
BackfillNodeFlags(result, nodes_used) ==
    IF NodeTypeCols(result.cols) # {} \/ ~nodes_used.present
       \/ ~(NodesUsedCols \subseteq nodes_used.cols)
    THEN result
    ELSE
    LET nodes_df == CoerceIds(nodes_used)
        types == {nodes_df.rows[i].nodeTypeId : i \in 1..Len(nodes_df.rows)} \ {NaN}
        total(t) == NodesCreated(nodes_df, LAMBDA r : r.nodeTypeId = t)
        top_5_types ==
            IF Cardinality(types) <= 5
            THEN types
            ELSE CHOOSE T \in SUBSET types :
                    /\ Cardinality(T) = 5
                    /\ \A a \in T : \A b \in types \ T : total(a) >= total(b)
        group(r) == IF r.nodeTypeId \in top_5_types
                    THEN NodeTypeFlagName(r.nodeTypeId)
                    ELSE "node_type_other"
        keyed == Filter(nodes_df, LAMBDA r : ~IsNa(r.company_id))
        node_type_flag_cols == {group(keyed.rows[i]) : i \in 1..Len(keyed.rows)}
        companies == {keyed.rows[i].company_id : i \in 1..Len(keyed.rows)}
        flag(id, g) ==
            IF id \in companies
               /\ NodesCreated(keyed, LAMBDA r : r.company_id = id /\ group(r) = g) > 0
            THEN 1 ELSE 0
        flagged == [present |-> TRUE,
                    cols |-> result.cols \cup node_type_flag_cols,
                    rows |-> [i \in 1..Len(result.rows) |->
                                [g \in node_type_flag_cols |->
                                    flag(result.rows[i].company_id, g)]
                                @@ result.rows[i]]]
        totalled == WithCol(flagged, "total_nodes_created",
                            LAMBDA r : IF r.company_id \in companies
                                       THEN NodesCreated(keyed,
                                                LAMBDA n : n.company_id = r.company_id)
                                       ELSE 0)
    IN  IF "total_nodes_created" \in result.cols
        THEN \* the merge suffixes both columns and the KeyError ends the block
             [present |-> TRUE,
              cols |-> (flagged.cols \ {"total_nodes_created"})
                       \cup {"total_nodes_created_x", "total_nodes_created_y"},
              rows |-> [i \in 1..Len(flagged.rows) |->
                  [c \in (flagged.cols \ {"total_nodes_created"})
                         \cup {"total_nodes_created_x", "total_nodes_created_y"} |->
                      CASE c = "total_nodes_created_x" ->
                              flagged.rows[i].total_nodes_created
                        [] c = "total_nodes_created_y" ->
                              IF flagged.rows[i].company_id \in companies
                              THEN totalled.rows[i].total_nodes_created
                              ELSE NaN
                        [] OTHER -> flagged.rows[i][c]]]]
        ELSE WithCol(totalled, "created_node",
                     LAMBDA r : IF \E g \in node_type_flag_cols : r[g] = 1
                                THEN 1 ELSE 0)

\* lines 209-332 (precomputed table) and 334-484 (built from signups)
CreateCorrectedAnalysis(d, deny, nodes_used) ==
    IF IsPrecomputed(d.analysis)
    THEN BackfillNodeFlags(
             ExcludeAnalysis(BackfillSessionsDuration(d.analysis, d.sessions_duration),
                             deny),
             nodes_used)
    ELSE BuildFromSignups(d)

-----------------------------------------------------------------------------
(* load_data *)

FileKeys ==
    {"signups", "subscriptions", "bots", "credit_wallet", "stripe_invoices",
     "user_sessions", "analysis", "company_engagement", "template_usage",
     "sessions_duration"}

\* the optional per-company sources of the feature join
SourceKeys ==
    {"subscriptions", "bots", "credit_wallet", "stripe_invoices",
     "template_usage", "company_engagement", "sessions_duration"}

\* the files of data/: those of load_data, and nodes_used.csv
DiskKeys == FileKeys \cup {"nodes_used"}

NoFiles == [k \in DiskKeys |-> None]

NoData == [loaded |-> FALSE]

\* lines 100-204; the returned dict, with subscriptions as line 344 leaves it
LoadData(fs, deny) ==
    LET d0 == [k \in FileKeys |-> fs[k]]
        d1 == IF d0.signups.present
              THEN [d0 EXCEPT !.signups = ExcludeSignups(d0.signups, deny)]
              ELSE d0
        d2 == IF d1.signups.present
              THEN [d1 EXCEPT
                      !.analysis = CreateCorrectedAnalysis(d1, deny, fs.nodes_used),
                      !.subscriptions =
                          IF IsPrecomputed(d1.analysis) THEN @ ELSE SubscriptionsAfter(@)]
              ELSE d1
    IN  [loaded |-> TRUE] @@ d2

\* lines 197-198 and 255-256: the warnings a run of load_data prints; the
\* signup filter opens the deny-list whenever the file exists, the filter of
\* the precomputed table only when the table has a company_name column
LoadWarnings(fs, deny) ==
    LET unreadable == deny.exists /\ ~deny.readable
    IN  (IF fs.signups.present /\ unreadable
         THEN {"[WARNING] Could not load excluded_companies.json"} ELSE {})
        \cup
        (IF fs.signups.present /\ IsPrecomputed(fs.analysis) /\ unreadable
            /\ "company_name" \in fs.analysis.cols
         THEN {"[WARNING] Could not filter analysis data"} ELSE {})

\* lines 1022-1027
get_analysis_df(d) ==
    IF d.analysis.present /\ Len(d.analysis.rows) > 0 THEN d.analysis ELSE d.signups

-----------------------------------------------------------------------------
(* build_funnel_data *)

NoFunnel == [built |-> FALSE]

\* lines 1107-1110: created_at within the date range (NaT compares False)
InDateRange(r, date_range) ==
    Ge(r.created_at, date_range[1]) /\ Ge(date_range[2], r.created_at)

FunnelCount(filtered, c) == IF c \in filtered.cols THEN CountTrue(filtered, c) ELSE 0

\* lines 1100-1150; absent = TRUE is the None result
build_funnel_data(d, date_range, plan_filter) ==
    LET analysis == get_analysis_df(d)
        byDate == Filter(analysis, LAMBDA r : InDateRange(r, date_range))
        filtered == IF plan_filter # "All Plans" /\ "plan" \in byDate.cols
                    THEN Filter(byDate, LAMBDA r : r.plan = plan_filter)
                    ELSE byDate
        total == Len(filtered.rows)
    IN  IF ~analysis.present \/ total = 0
        THEN [built |-> TRUE, absent |-> TRUE]
        ELSE [built |-> TRUE, absent |-> FALSE,
              date_range |-> date_range, plan_filter |-> plan_filter,
              Signup |-> total,
              CreatedBot |-> FunnelCount(filtered, "has_bot"),
              ProductionChannel |-> FunnelCount(filtered, "has_prod_channel"),
              UsedConversations |-> FunnelCount(filtered, "used_conversations"),
              ExceededFreeTier |-> FunnelCount(filtered, "exceeded_free_tier"),
              ActuallyPaid |-> FunnelCount(filtered, "actually_paid")]

-----------------------------------------------------------------------------
(* Retention calculator *)

\* A timestamp is a number of half days since a Monday 00:00, so that a
\* timestamp has a time of day; a date is the timestamp of its midnight.
HalfDays(days) == 2 * days

\* Series.dt.normalize(): the midnight of the timestamp's day
Normalize(ts) == IF IsNa(ts) THEN NaN ELSE ts - (ts % 2)

\* (a - b).dt.days of two normalized timestamps
DaysBetween(a, b) == (a - b) \div 2

\* a variant of the week that starts on Sunday 00:00 and ends on Saturday
WeekStart_Sunday(ts) == IF IsNa(ts) THEN NaN ELSE ts - ((ts + 2) % 14)

\* created_at.dt.to_period('W-SUN').dt.start_time: the Monday 00:00 that
\* starts the week, ending on Sunday, which holds the timestamp
WeekStart(ts) == IF IsNa(ts) THEN NaN ELSE ts - (ts % 14)

\* a variant of the flag ladder that measures a period from the day it ends
periods_flags_by_offset ==
    << [period |-> "Day 1", flag_col |-> "retained_day1", min_age |-> 1],
       [period |-> "Week 1", flag_col |-> "retained_week1", min_age |-> 7],
       [period |-> "Week 2", flag_col |-> "retained_week2", min_age |-> 14],
       [period |-> "Week 3", flag_col |-> "retained_week3", min_age |-> 21],
       [period |-> "Week 4", flag_col |-> "retained_week4", min_age |-> 28],
       [period |-> "Week 5", flag_col |-> "retained_week5", min_age |-> 35],
       [period |-> "Week 6", flag_col |-> "retained_week6", min_age |-> 42],
       [period |-> "Week 7", flag_col |-> "retained_week7", min_age |-> 49],
       [period |-> "Week 8", flag_col |-> "retained_week8", min_age |-> 56] >>

\* a variant of the session ladder whose minimum age is the offset plus six
periods_sessions_plus_six ==
    << [period |-> "Day 1", period_days |-> 1, min_age |-> 7],
       [period |-> "Week 1", period_days |-> 7, min_age |-> 13],
       [period |-> "Week 2", period_days |-> 14, min_age |-> 20],
       [period |-> "Week 3", period_days |-> 21, min_age |-> 27],
       [period |-> "Week 4", period_days |-> 28, min_age |-> 34],
       [period |-> "Week 5", period_days |-> 35, min_age |-> 41],
       [period |-> "Week 6", period_days |-> 42, min_age |-> 48],
       [period |-> "Week 7", period_days |-> 49, min_age |-> 55],
       [period |-> "Week 8", period_days |-> 56, min_age |-> 62] >>

\* lines 573-583: (period, flag column, minimum age)
periods_flags ==
    << [period |-> "Day 1", flag_col |-> "retained_day1", min_age |-> 7],
       [period |-> "Week 1", flag_col |-> "retained_week1", min_age |-> 14],
       [period |-> "Week 2", flag_col |-> "retained_week2", min_age |-> 21],
       [period |-> "Week 3", flag_col |-> "retained_week3", min_age |-> 28],
       [period |-> "Week 4", flag_col |-> "retained_week4", min_age |-> 35],
       [period |-> "Week 5", flag_col |-> "retained_week5", min_age |-> 42],
       [period |-> "Week 6", flag_col |-> "retained_week6", min_age |-> 49],
       [period |-> "Week 7", flag_col |-> "retained_week7", min_age |-> 56],
       [period |-> "Week 8", flag_col |-> "retained_week8", min_age |-> 63] >>

\* lines 657-667: (period, days after signup, minimum age)
periods_sessions ==
    << [period |-> "Day 1", period_days |-> 1, min_age |-> 7],
       [period |-> "Week 1", period_days |-> 7, min_age |-> 14],
       [period |-> "Week 2", period_days |-> 14, min_age |-> 21],
       [period |-> "Week 3", period_days |-> 21, min_age |-> 28],
       [period |-> "Week 4", period_days |-> 28, min_age |-> 35],
       [period |-> "Week 5", period_days |-> 35, min_age |-> 42],
       [period |-> "Week 6", period_days |-> 42, min_age |-> 49],
       [period |-> "Week 7", period_days |-> 49, min_age |-> 56],
       [period |-> "Week 8", period_days |-> 56, min_age |-> 63] >>

\* lines 742-752: (period, flag column, minimum age)
periods_cohort ==
    << [period |-> "Day 1", flag_col |-> "retained_day1", min_age |-> 7],
       [period |-> "Week 1", flag_col |-> "retained_week1", min_age |-> 14],
       [period |-> "Week 2", flag_col |-> "retained_week2", min_age |-> 21],
       [period |-> "Week 3", flag_col |-> "retained_week3", min_age |-> 28],
       [period |-> "Week 4", flag_col |-> "retained_week4", min_age |-> 35],
       [period |-> "Week 5", flag_col |-> "retained_week5", min_age |-> 42],
       [period |-> "Week 6", flag_col |-> "retained_week6", min_age |-> 49],
       [period |-> "Week 7", flag_col |-> "retained_week7", min_age |-> 56],
       [period |-> "Week 8", flag_col |-> "retained_week8", min_age |-> 63] >>

\* retained / eligible * 100, kept as an exact fraction
Rate(retained, eligible) == [num |-> retained * 100, den |-> eligible]

\* the results: None, a DataFrame of records, or an exception to the caller
Absent == [absent |-> TRUE, raised |-> FALSE, records |-> <<>>]
Raised == [absent |-> FALSE, raised |-> TRUE, records |-> <<>>]
Frame(records) == [absent |-> FALSE, raised |-> FALSE, records |-> records]

\* a variant of the flag curve that reports a period without eligible
\* companies as 0%
CurveFromFlags_ZeroPeriods(df) ==
    LET total_signups == Len(df.rows)
        day0 == [period |-> "Day 0", retention_rate |-> [num |-> 100, den |-> 1],
                 eligible |-> total_signups, retained |-> total_signups]
        rec(p) ==
            IF p.flag_col \notin df.cols
            THEN <<>>
            ELSE LET eligible == Filter(df, LAMBDA r : Ge(r.days_since_signup, p.min_age))
                     retained == Filter(eligible, LAMBDA r : r[p.flag_col] = TRUE)
                 IN  << [period |-> p.period,
                         retention_rate |->
                             IF Len(eligible.rows) = 0 THEN [num |-> 0, den |-> 1]
                             ELSE Rate(Len(retained.rows), Len(eligible.rows)),
                         eligible |-> Len(eligible.rows),
                         retained |-> Len(retained.rows)] >>
    IN  Frame(<<day0>> \o Flatten([k \in 1..Len(periods_flags) |-> rec(periods_flags[k])]))

\* lines 569-620: the curve from the precomputed flags
CurveFromFlags(df) ==
    LET total_signups == Len(df.rows)
        day0 == [period |-> "Day 0", retention_rate |-> [num |-> 100, den |-> 1],
                 eligible |-> total_signups, retained |-> total_signups]
        rec(p) ==
            IF p.flag_col \notin df.cols
            THEN <<>>
            ELSE LET eligible == Filter(df, LAMBDA r : Ge(r.days_since_signup, p.min_age))
                     retained == Filter(eligible, LAMBDA r : r[p.flag_col] = TRUE)
                 IN  IF Len(eligible.rows) = 0
                     THEN <<>>
                     ELSE << [period |-> p.period,
                              retention_rate |-> Rate(Len(retained.rows), Len(eligible.rows)),
                              eligible |-> Len(eligible.rows),
                              retained |-> Len(retained.rows)] >>
    IN  Frame(<<day0>> \o Flatten([k \in 1..Len(periods_flags) |-> rec(periods_flags[k])]))

SessionCols == {"company_id", "first_session", "last_session", "days_active", "total_sessions"}

\* lines 622-705: the curve from the session timestamps; reading a column the
\* table does not have raises KeyError
CurveFromSessions(df, sessions, now) ==
    IF ~NonEmpty(sessions)
    THEN Absent
    ELSE IF ~({"company_id", "created_at"} \subseteq df.cols)
            \/ ~(SessionCols \subseteq sessions.cols)
    THEN Raised
    ELSE
    LET merged == LeftMerge(df, Project(CoerceIds(sessions), SessionCols))
        signup_date(r) == Normalize(r.created_at)
        days_to_last(r) ==
            IF IsNa(r.created_at) \/ IsNa(r.last_session)
            THEN NaN
            ELSE DaysBetween(Normalize(r.last_session), signup_date(r))
        old_enough(r, min_age) ==
            ~IsNa(r.created_at) /\ DaysBetween(now, signup_date(r)) >= min_age
        total_signups == Len(merged.rows)
        day0 == [period |-> "Day 0", eligible_signups |-> total_signups,
                 still_active |-> total_signups,
                 retention_rate |-> [num |-> 100, den |-> 1]]
        rec(p) ==
            LET eligible == Filter(merged, LAMBDA r : old_enough(r, p.min_age))
                active_at_period ==
                    Filter(eligible,
                           LAMBDA r : ~(IsNa(r.created_at) \/ IsNa(r.last_session))
                                      /\ days_to_last(r) >= p.period_days)
            IN  IF Len(eligible.rows) = 0
                THEN <<>>
                ELSE << [period |-> p.period,
                         eligible_signups |-> Len(eligible.rows),
                         still_active |-> Len(active_at_period.rows),
                         retention_rate |->
                             Rate(Len(active_at_period.rows), Len(eligible.rows))] >>
    IN  Frame(<<day0>> \o
              Flatten([k \in 1..Len(periods_sessions) |-> rec(periods_sessions[k])]))

\* lines 563-705: the body of the try block
CurveBody(df, sessions, now) ==
    IF {"retained_day1", "retained_week1", "days_since_signup"} \subseteq df.cols
    THEN CurveFromFlags(df)
    ELSE CurveFromSessions(df, sessions, now)

\* a variant of the curve without the try block
calculate_retention_curve_uncaught(df, sessions, now) ==
    IF ~NonEmpty(df) THEN Absent ELSE CurveBody(df, sessions, now)

\* lines 540-712: `except Exception` turns every exception of the body into None
calculate_retention_curve(df, sessions, now) ==
    IF ~NonEmpty(df)
    THEN Absent
    ELSE IF CurveBody(df, sessions, now).raised THEN Absent
         ELSE CurveBody(df, sessions, now)

CohortRequired == {"created_at", "retained_day1", "retained_week1", "days_since_signup"}

\* lines 715-800; one record per signup week, ascending; rate NaN is the
\* None of a period without eligible companies
calculate_cohort_retention(df) ==
    IF ~NonEmpty(df)
    THEN Absent
    ELSE IF ~(CohortRequired \subseteq df.cols)
    THEN Absent
    ELSE
    LET weeks == SortedSeq({WeekStart(df.rows[i].created_at) : i \in 1..Len(df.rows)}
                           \ {NaN})
        cell(group, p) ==
            IF p.flag_col \notin df.cols
            THEN [rate |-> NaN, eligible |-> 0, retained |-> 0]
            ELSE LET eligible == Filter(group, LAMBDA r : Ge(r.days_since_signup, p.min_age))
                     retained == Filter(eligible, LAMBDA r : r[p.flag_col] = TRUE)
                 IN  IF Len(eligible.rows) = 0
                     THEN [rate |-> NaN, eligible |-> 0, retained |-> 0]
                     ELSE [rate |-> Rate(Len(retained.rows), Len(eligible.rows)),
                           eligible |-> Len(eligible.rows),
                           retained |-> Len(retained.rows)]
        cohortOf(week) ==
            LET group == Filter(df, LAMBDA r : WeekStart(r.created_at) = week)
            IN  [signup_week |-> week,
                 week_end |-> week + HalfDays(6),
                 total_signups |-> Len(group.rows),
                 periods |-> [k \in 1..Len(periods_cohort) |->
                                 [period |-> periods_cohort[k].period]
                                 @@ cell(group, periods_cohort[k])]]
    IN  IF weeks = <<>>
        THEN Absent
        ELSE Frame([w \in 1..Len(weeks) |-> cohortOf(weeks[w])])

-----------------------------------------------------------------------------
(* The cache of load_data and the request of main *)

\* the parameter list of load_data (line 100)
LoadDataParams == << <<"_","e","x","c","l","u","d","e","d","_","h","a","s","h">> >>

\* get_excluded_companies_hash, lines 92-97
get_excluded_companies_hash(deny) == IF deny.exists THEN deny.mtime ELSE 0

\* @st.cache_data on load_data (lines 99-100): the cache key is made of the
\* arguments whose parameter name does not begin with an underscore
CacheKey(params, args) ==
    LET hashed == {i \in 1..Len(params) : Head(params[i]) # "_"}
    IN  [i \in hashed |-> args[i]]

NoDeny == [exists |-> FALSE, mtime |-> 0, readable |-> TRUE, names |-> {}]

NotServed == [done |-> FALSE]

EmptyCache == {}

Cached(key) == {e \in cache : e.key = key}

\* main, lines 1201-1202: data = load_data(_excluded_hash=get_excluded_companies_hash())
MainLoad ==
    LET arg == get_excluded_companies_hash(denyfile)
        key == CacheKey(LoadDataParams, <<arg>>)
    IN  IF Cached(key) # {}
        THEN LET e == CHOOSE e \in Cached(key) : TRUE
             IN  /\ data' = e.value
                 /\ served' = [done |-> TRUE, hit |-> TRUE, deny |-> e.deny,
                               warnings |-> {}]
                 /\ UNCHANGED cache
        ELSE /\ data' = LoadData(files, denyfile)
             /\ served' = [done |-> TRUE, hit |-> FALSE, deny |-> denyfile,
                           warnings |-> LoadWarnings(files, denyfile)]
             /\ cache' = cache \cup
                   {[key |-> key, value |-> LoadData(files, denyfile), deny |-> denyfile]}

-----------------------------------------------------------------------------
(* Sample cells and rows of the input files *)

SeqsUpTo(S, n) == UNION {[1..k -> S] : k \in 0..n}

\* company_id cells as pandas reads a numeric column, and as CSV text
NumIds == {1, 2, NaN}
RawIds == {"1", "2.0", "abc"}
SignupIds == {1, 2, NaN}

BrainStudio == <<"B","r","a","i","n"," ","s","t","u","d","i","o">>
PlanConnect == <<"P","l","a","n"," ","C","o","n","n","e","c","t">>

Header(k) ==
    CASE k = "subscriptions" -> {"company_id", "status", "product_name"}
      [] k = "bots" -> {"company_id", "in_production", "state"}
      [] k = "credit_wallet" -> {"company_id", "total_used", "exceeded_free_tier"}
      [] k = "stripe_invoices" -> {"company_id", "amount_paid"}
      [] k = "template_usage" -> {"company_id", "total_events", "created_templates"}
      [] k = "company_engagement" ->
            {"company_id", "sandbox_executions", "prod_executions"}
      [] k = "sessions_duration" ->
            {"_id", "tiempoTotalMinutos", "promedioSesionMinutos", "totalSesiones"}

SourceRows(k) ==
    CASE k = "subscriptions" ->
            [company_id : RawIds, status : {"ACTIVE", "TRIALING"},
             product_name : {BrainStudio, PlanConnect}]
      [] k = "bots" -> [company_id : NumIds, in_production : {0, 1}, state : {0, 1}]
      [] k = "credit_wallet" ->
            [company_id : NumIds, total_used : {0, 3}, exceeded_free_tier : {0, 1}]
      [] k = "stripe_invoices" -> [company_id : NumIds, amount_paid : {0, 5}]
      [] k = "template_usage" ->
            [company_id : RawIds, total_events : {4}, created_templates : {0, 2}]
      [] k = "company_engagement" ->
            [company_id : RawIds, sandbox_executions : {0, 1}, prod_executions : {0, 1}]
      [] k = "sessions_duration" ->
            [_id : RawIds, tiempoTotalMinutos : {7}, promedioSesionMinutos : {7},
             totalSesiones : {1}]

\* rows and header-only files written so far
SourceKeySeq ==
    <<"subscriptions", "bots", "credit_wallet", "stripe_invoices",
      "template_usage", "company_engagement", "sessions_duration">>

Written(t) == IF ~t.present THEN 0 ELSE IF t.rows = <<>> THEN 1 ELSE Len(t.rows)

Writes == SumSeq([i \in 1..Len(SourceKeySeq) |-> Written(files[SourceKeySeq[i]])])

LoadWrites == Written(files.signups) + Written(files.analysis)

-----------------------------------------------------------------------------
(* Authentication: st.session_state and check_password *)

\* line 1160: the shared passphrase
Passphrase == "jelouproduct2026"

\* a session that has not run the script yet
NewSession == [k \in {} |-> FALSE]

\* st.session_state[k] = v
SetKey(s, k, v) == [x \in DOMAIN s \cup {k} |-> IF x = k THEN v ELSE s[x]]

\* del st.session_state[k]
DelKey(s, k) == [x \in DOMAIN s \ {k} |-> s[x]]

\* a session past the gate
Authenticated == SetKey(NewSession, "password_correct", TRUE)

\* lines 1158-1164: the on_change callback of the text input
password_entered(s) ==
    IF s["password"] = Passphrase
    THEN DelKey(SetKey(s, "password_correct", TRUE), "password")
    ELSE SetKey(s, "password_correct", FALSE)

\* a gate that lets any session with the key through
check_password_KeyPresent(s) == "password_correct" \in DOMAIN s

\* lines 1166-1190: the value check_password returns
check_password(s) ==
    IF "password_correct" \notin DOMAIN s THEN FALSE
    ELSE IF ~s["password_correct"] THEN FALSE
    ELSE TRUE

\* lines 1166-1187: the text input drawn by the two refusing branches registers
\* its key in the session
GateDrawn(s) == IF "password" \in DOMAIN s THEN s ELSE SetKey(s, "password", "")

\* no stage summary drawn yet
NoOverview == [rendered |-> FALSE]

\* no notebook file
NoNotebook == [exists |-> FALSE]

-----------------------------------------------------------------------------
(* The files are written, main loads them, a view is built *)

NotComputed == [computed |-> FALSE]

Idle ==
    /\ denyfile = NoDeny
    /\ cache = EmptyCache
    /\ data = NoData
    /\ served = NotServed
    /\ funnel = NoFunnel
    /\ signups_df = None
    /\ user_sessions_df = None
    /\ today = 0
    /\ retention = NotComputed
    /\ cohort = NotComputed
    /\ session_state = Authenticated
    /\ overview = NoOverview
    /\ notebook = NoNotebook
    /\ pc = "files"

\* an export writes the header of one of the source files `keys`
WriteHeaderTo(keys, limit) ==
    /\ pc = "files"
    /\ Writes < limit
    /\ \E k \in keys :
          /\ ~files[k].present
          /\ files' = [files EXCEPT ![k] = Table(Header(k), <<>>)]
    /\ UNCHANGED <<denyfile, cache, data, served, funnel, signups_df,
                   user_sessions_df, today, retention, cohort, pc, session_state, overview,
                   notebook>>

\* an export appends a row to one of the source files `keys`
WriteRowTo(keys, limit) ==
    /\ pc = "files"
    /\ Writes < limit
    /\ \E k \in keys : \E r \in SourceRows(k) :
          files' = [files EXCEPT ![k] = Table(Header(k), @.rows \o <<r>>)]
    /\ UNCHANGED <<denyfile, cache, data, served, funnel, signups_df,
                   user_sessions_df, today, retention, cohort, pc, session_state, overview,
                   notebook>>

\* main, lines 1193-1202: the gate, then the data is loaded
Main ==
    /\ pc \in {"files", "edited", "gate", "rerun"}
    /\ IF check_password(session_state)
       THEN /\ MainLoad
            /\ pc' = "loaded"
            /\ UNCHANGED session_state
       ELSE /\ session_state' = GateDrawn(session_state)
            /\ pc' = "gate"
            /\ UNCHANGED <<cache, data, served>>
    /\ UNCHANGED <<files, denyfile, funnel, signups_df, user_sessions_df,
                   today, retention, cohort, overview, notebook>>

-----------------------------------------------------------------------------
(* Feature join: signups.csv and any of the seven source files *)

JoinSignups ==
    {Table({"company_id", "created_at"}, rows) :
        rows \in SeqsUpTo([company_id : SignupIds, created_at : {5}], MaxSignups) \ {<<>>}}

InitJoin ==
    /\ files \in {[NoFiles EXCEPT !.signups = t] : t \in JoinSignups}
    /\ Idle

WriteHeader == WriteHeaderTo(SourceKeys, MaxWrites)

WriteRow == WriteRowTo(SourceKeys, MaxWrites)

NextJoin == WriteHeader \/ WriteRow \/ Main

SpecJoin == InitJoin /\ [][NextJoin]_vars

\* the table was built from signups (lines 334-484)
BuiltFromSignups ==
    pc = "loaded" /\ files.signups.present /\ ~IsPrecomputed(files.analysis)

\* the derived columns of each source, with their default
DerivedDefaults(k) ==
    CASE k = "subscriptions" ->
            [c \in SubscriptionCols |-> FALSE]
      [] k = "bots" -> [has_bot |-> FALSE, bot_count |-> 0, has_prod_channel |-> FALSE]
      [] k = "credit_wallet" -> [used_conversations |-> FALSE, exceeded_free_tier |-> FALSE]
      [] k = "stripe_invoices" -> [actually_paid |-> FALSE, total_paid |-> 0]
      [] k = "template_usage" -> [created_templates |-> 0, has_template_usage |-> FALSE]
      [] k = "company_engagement" ->
            [has_workflow |-> FALSE, has_sandbox |-> FALSE, has_prod_exec |-> FALSE]
      [] k = "sessions_duration" ->
            [total_time_minutes |-> 0, avg_session_minutes |-> 0, session_count_sd |-> 0]
      [] k = "nodes_used" -> [total_nodes_created |-> 0, created_node |-> 0]

Defaulted(t, defaults) ==
    \A c \in DOMAIN defaults :
        /\ c \in t.cols
        /\ \A i \in 1..Len(t.rows) : t.rows[i][c] = defaults[c]

\* C1: in the table built from signups, every derived column of an absent or
\* empty source (the seven source files, and the node usage the signup path
\* never reads) is present and False/0 for every company.
C1_AbsentSourceDefaults ==
    BuiltFromSignups =>
        /\ \A k \in SourceKeys :
              ~NonEmpty(files[k]) => Defaulted(data.analysis, DerivedDefaults(k))
        /\ Defaulted(data.analysis, DerivedDefaults("nodes_used"))

\* C2: the joined table has exactly one row per signup row, in order: none
\* dropped, none duplicated.
C2_OneRowPerSignup ==
    BuiltFromSignups =>
        /\ Len(data.analysis.rows) = Len(data.signups.rows)
        /\ \A i \in 1..Len(data.signups.rows) :
              data.analysis.rows[i].company_id = data.signups.rows[i].company_id

-----------------------------------------------------------------------------
(* Funnel view: signups.csv, bots.csv and a source whose join is per row *)

DateRanges == {<<0, 9>>, <<6, 9>>}
PlanFilters == {"All Plans", "SELF_SERVICE"}

ViewSignups ==
    {Table({"company_id", "plan", "created_at"}, rows) :
        rows \in SeqsUpTo([company_id : SignupIds, plan : {"SELF_SERVICE", "ENTERPRISE"},
                           created_at : {5}], MaxSignups) \ {<<>>}}

ViewSources == {"bots", "sessions_duration"}

InitFunnel ==
    /\ files \in {[NoFiles EXCEPT !.signups = t] : t \in ViewSignups}
    /\ Idle

WriteViewHeader == WriteHeaderTo(ViewSources, MaxViewWrites)

WriteViewRow == WriteRowTo(ViewSources, MaxViewWrites)

\* a view calls build_funnel_data
BuildFunnel ==
    /\ pc = "loaded"
    /\ \E date_range \in DateRanges : \E plan_filter \in PlanFilters :
          funnel' = build_funnel_data(data, date_range, plan_filter)
    /\ pc' = "funnel"
    /\ UNCHANGED <<files, denyfile, cache, data, served, signups_df,
                   user_sessions_df, today, retention, cohort, session_state, overview,
                   notebook>>

NextFunnel == WriteViewHeader \/ WriteViewRow \/ Main \/ BuildFunnel

SpecFunnel == InitFunnel /\ [][NextFunnel]_vars

\* a single bot row of the company with this company_id cell is in
\* production and active at the same time
HasProdBot(id) ==
    \E i \in 1..Len(files.bots.rows) :
        LET b == files.bots.rows[i]
        IN  b.company_id = id /\ b.in_production = 1 /\ b.state = 1

\* the signup rows of the view
InView(r, date_range, plan_filter) ==
    /\ InDateRange(r, date_range)
    /\ plan_filter = "All Plans" \/ r.plan = plan_filter

\* C3: has_prod_channel of a company holds exactly when one bot row of the
\* company has in_production = 1 and state = 1, and the Production Channel
\* count of a view is the number of its companies with such a row.
C3_ProdChannel ==
    /\ pc \in {"loaded", "funnel"} =>
          \A i \in 1..Len(data.analysis.rows) :
              data.analysis.rows[i].has_prod_channel
                  <=> HasProdBot(data.analysis.rows[i].company_id)
    /\ (pc = "funnel" /\ ~funnel.absent) =>
          funnel.ProductionChannel =
              Cardinality({i \in 1..Len(files.signups.rows) :
                  /\ InView(files.signups.rows[i], funnel.date_range, funnel.plan_filter)
                  /\ HasProdBot(files.signups.rows[i].company_id)})

-----------------------------------------------------------------------------
(* Exclusion: signups.csv, analysis_combined.csv and the deny-list file *)

OkEmail == <<"x","@","o","k",".","i","o">>
JelouEmail == <<"x","@","J","e","l","o","u",".","A","I">>
ImpersonateEmail == <<"i","m","p","e","r","s","o","n","a","t","e","@","o","k",".","i","o">>
OkSlug == <<"a","c","m","e">>
JelouSlug == <<"m","y","-","J","E","L","O","U">>
OkName == <<"o","k">>
AcmeName == <<"a","c","m","e"," ","t","e","s","t"," ","c","o"," ">>
AcmeListed == <<"A","c","m","e"," ","T","e","s","t"," ","C","o">>

LoadCols == {"company_id", "email", "slug", "company_name", "created_at"}
MarkerCols == {"retained_week1", "bot_count"}

\* a company matched by no rule, one matched by each rule alone, and one
\* whose email holds 'impersonate'
LoadRow(email, slug, company_name) ==
    [company_id |-> 1, email |-> email, slug |-> slug,
     company_name |-> company_name, created_at |-> 5]

LoadRows ==
    {LoadRow(OkEmail, OkSlug, OkName), LoadRow(JelouEmail, OkSlug, OkName),
     LoadRow(OkEmail, JelouSlug, OkName), LoadRow(OkEmail, OkSlug, AcmeName),
     LoadRow(ImpersonateEmail, OkSlug, OkName)}

\* a row of analysis_combined.csv with the columns of its header
AsAnalysisRow(r, cols) ==
    IF MarkerCols \subseteq cols
    THEN [retained_week1 |-> FALSE, bot_count |-> 0] @@ r
    ELSE r

\* what an edit leaves in excluded_companies.json
DenyContents ==
    {[readable |-> FALSE, names |-> {}],
     [readable |-> TRUE, names |-> {}],
     [readable |-> TRUE, names |-> {AcmeListed}]}

InitLoad ==
    /\ files = NoFiles
    /\ Idle

WriteLoadHeader ==
    /\ pc = "files"
    /\ LoadWrites < MaxLoadWrites
    /\ \/ /\ ~files.signups.present
          /\ files' = [files EXCEPT !.signups = Table(LoadCols, <<>>)]
       \/ /\ ~files.analysis.present
          /\ \E cols \in {LoadCols, LoadCols \cup MarkerCols} :
                files' = [files EXCEPT !.analysis = Table(cols, <<>>)]
    /\ UNCHANGED <<denyfile, cache, data, served, funnel, signups_df,
                   user_sessions_df, today, retention, cohort, pc, session_state, overview,
                   notebook>>

WriteLoadRow ==
    /\ pc = "files"
    /\ LoadWrites < MaxLoadWrites
    /\ \E r \in LoadRows :
          \/ files' = [files EXCEPT !.signups = Table(LoadCols, @.rows \o <<r>>)]
          \/ \E cols \in IF files.analysis.present THEN {files.analysis.cols}
                         ELSE {LoadCols, LoadCols \cup MarkerCols} :
                files' = [files EXCEPT !.analysis =
                             Table(cols, @.rows \o <<AsAnalysisRow(r, cols)>>)]
    /\ UNCHANGED <<denyfile, cache, data, served, funnel, signups_df,
                   user_sessions_df, today, retention, cohort, pc, session_state, overview,
                   notebook>>

\* data/nodes_used.csv as exported: a company with two node types, a line
\* without a company and an unused node type; or a file without nodeTypeId
NodesUsedTables ==
    {Table(NodesUsedCols,
           <<[company_id |-> "1", nodeTypeId |-> 3, nodes_created |-> 2],
             [company_id |-> "1.0", nodeTypeId |-> 7, nodes_created |-> 0],
             [company_id |-> "abc", nodeTypeId |-> 7, nodes_created |-> 1]>>),
     Table({"company_id", "nodes_created"},
           <<[company_id |-> "1", nodes_created |-> 2]>>)}

WriteNodesUsed ==
    /\ pc = "files"
    /\ ~files.nodes_used.present
    /\ \E t \in NodesUsedTables : files' = [files EXCEPT !.nodes_used = t]
    /\ UNCHANGED <<denyfile, cache, data, served, funnel, signups_df,
                   user_sessions_df, today, retention, cohort, pc, session_state, overview,
                   notebook>>

\* excluded_companies.json is created or rewritten: its mtime moves on
EditDenyList ==
    /\ pc \in {"files", "loaded", "edited"}
    /\ denyfile.mtime < MaxMtime
    /\ \E c \in DenyContents :
          denyfile' = [exists |-> TRUE, mtime |-> denyfile.mtime + 1,
                       readable |-> c.readable, names |-> c.names]
    /\ pc' = IF pc = "files" THEN "files" ELSE "edited"
    /\ UNCHANGED <<files, cache, data, served, funnel, signups_df,
                   user_sessions_df, today, retention, cohort, session_state, overview,
                   notebook>>

\* the exclusion rules run again on the tables load_data returned
Reapply ==
    /\ pc = "loaded"
    /\ data' = [data EXCEPT
                  !.signups = IF @.present THEN ExcludeSignups(@, denyfile) ELSE @,
                  !.analysis = IF IsPrecomputed(@) /\ data.signups.present
                               THEN ExcludeAnalysis(@, denyfile) ELSE @]
    /\ pc' = "reapplied"
    /\ UNCHANGED <<files, denyfile, cache, served, funnel, signups_df,
                   user_sessions_df, today, retention, cohort, session_state, overview,
                   notebook>>

NextLoad ==
    WriteLoadHeader \/ WriteLoadRow \/ WriteNodesUsed \/ EditDenyList \/ Main \/ Reapply

SpecLoad == InitLoad /\ [][NextLoad]_vars

\* the row is matched by one of the three exclusion rules
Excluded(r, deny) ==
    \/ ContainsCI(r.email, JelouDomain)
    \/ ContainsCI(r.slug, Jelou)
    \/ /\ deny.exists /\ deny.readable
       /\ StrLower(StrStrip(r.company_name)) \in
              {StrLower(StrStrip(n)) : n \in deny.names}

\* C4: after load_data, whichever files are present, the analysis table
\* handed to the views holds no row matched by an exclusion rule.
C4_NoExcludedRows ==
    (pc = "loaded" /\ served.deny = denyfile) =>
        LET t == get_analysis_df(data)
        IN  \A i \in 1..Len(t.rows) : ~Excluded(t.rows[i], denyfile)

\* C5: running the exclusion rules on their own output removes no further
\* row, for the signup-path filter and for the precomputed-table filter.
C5_ExclusionIdempotent ==
    pc = "reapplied" =>
        \A e \in cache :
            (e.deny = denyfile) =>
                /\ data.signups = e.value.signups
                /\ data.analysis = e.value.analysis

C5_Witness ==
    /\ pc = "reapplied"
    /\ \E e \in cache : e.deny = denyfile
    /\ IsPrecomputed(data.analysis)
    /\ Len(data.analysis.rows) < Len(files.analysis.rows)
    /\ denyfile.names # {}

\* C6: a request made after the deny-list file changed is served tables
\* computed under the changed deny-list, never those cached under the old one.
C6_DenyListBustsCache ==
    pc = "loaded" => served.deny = denyfile


-----------------------------------------------------------------------------
(* SpecRetention: the retention curve and the weekly cohorts over company    *)
(* tables of several column sets, ages around every minimum age, and         *)
(* session tables with repeated and unparseable ids                          *)

MaxCompanies == 2
MaxSessions == 2

FlagCols == {periods_flags[k].flag_col : k \in 1..Len(periods_flags)}

\* the column sets of the company table: every flag, the flags of an older
\* notebook, flags without created_at, no flags, and the id alone
FullCols == {"company_id", "created_at", "days_since_signup"} \cup FlagCols
ShortCols == {"company_id", "created_at", "days_since_signup",
              "retained_day1", "retained_week1"}
NoDateCols == {"company_id", "days_since_signup",
               "retained_day1", "retained_week1", "retained_week2"}
SessionPathCols == {"company_id", "created_at"}
BareCols == {"company_id"}

\* the moment of the request: a midnight, and the one a day later
SampleNow == HalfDays(70)
Nows == {SampleNow, SampleNow + HalfDays(1)}

\* ages on both sides of every minimum age, and an unknown age
RungAges == UNION {{periods_flags[k].min_age - 1, periods_flags[k].min_age}
                   : k \in 1..Len(periods_flags)} \cup {NaN}
CoreAges == {13, 14, 20, 21, NaN}

\* which flags of a company are true
FlagPatterns == {{}, {"retained_day1", "retained_week1"}, FlagCols}

\* a company signed up at noon, `age` days before SampleNow
CreatedAt(age) == IF IsNa(age) THEN NaN ELSE SampleNow - HalfDays(age) + 1

FlaggedRow(cols, id, age, pattern) ==
    [c \in cols |->
        CASE c = "company_id" -> id
          [] c = "created_at" -> CreatedAt(age)
          [] c = "days_since_signup" -> age
          [] OTHER -> c \in pattern]

FlaggedRows(cols, ids, ages) ==
    {FlaggedRow(cols, id, age, pattern) :
        id \in ids, age \in ages, pattern \in FlagPatterns}

\* tables of up to n companies of the core ages, and tables of one company
\* of every age
CompanyTables(cols, ids, n) ==
    {Table(cols, rows) : rows \in SeqsUpTo(FlaggedRows(cols, ids, CoreAges), n)}
    \cup {Table(cols, <<r>>) : r \in FlaggedRows(cols, ids, RungAges)}

FlagTables(n) ==
    CompanyTables(FullCols, {1}, n) \cup CompanyTables(ShortCols, {1}, n)
    \cup CompanyTables(NoDateCols, {1}, n)

SessionPathTables(n) ==
    {Table(SessionPathCols, rows) :
        rows \in SeqsUpTo(FlaggedRows(SessionPathCols, {1, 2}, {7, 14})
                              \cup FlaggedRows(SessionPathCols, {1}, {NaN}), n)}
    \cup {Table(BareCols, <<[company_id |-> 1]>>)}

\* ages of a Sunday, of the Monday that starts its week, and of the Sunday
\* before it
WeekAges == {8, 14, 15}

\* tables of up to n companies that signed up around a week boundary
WeekTables(n) ==
    {Table(FullCols, rows) : rows \in SeqsUpTo(FlaggedRows(FullCols, {1}, WeekAges), n)}

\* one company of every age, for the session path
RungTables ==
    {Table(SessionPathCols, <<r>>) : r \in FlaggedRows(SessionPathCols, {1}, RungAges)}

\* user_sessions.csv: one line per company as exported, with a repeated
\* company, an id written as a float and an id that is no number
SessionRow(id, last) ==
    [company_id |-> id, first_session |-> last, last_session |-> last,
     days_active |-> 1, total_sessions |-> 1]

SessionRows ==
    {SessionRow("1", NaN), SessionRow("1", SampleNow - HalfDays(6) + 1),
     SessionRow("2.0", SampleNow), SessionRow("abc", SampleNow)}

SessionTables(n) ==
    {None, Table({"company_id"}, <<[company_id |-> "1"]>>)}
    \cup {Table(SessionCols, rows) : rows \in SeqsUpTo(SessionRows, n)}

\* the last session of a company in the session export, NaN without one
LastSessionOf(sessions, id) ==
    IF ~NonEmpty(sessions) \/ ~(SessionCols \subseteq sessions.cols)
    THEN NaN
    ELSE LET ls == {sessions.rows[j].last_session :
                       j \in {j \in 1..Len(sessions.rows) :
                                 ToNumeric(sessions.rows[j].company_id) = id}} \ {NaN}
         IN  IF ls = {} THEN NaN ELSE CHOOSE m \in ls : \A x \in ls : x <= m

\* the last session of the company came `offset` days or more after signup
ActiveAfter(r, sessions, offset) ==
    LET last == LastSessionOf(sessions, r.company_id)
    IN  /\ ~IsNa(last)
        /\ ~IsNa(r.created_at)
        /\ DaysBetween(Normalize(last), Normalize(r.created_at)) >= offset

\* today minus the signup date, in days
AgeAt(r, now) ==
    IF IsNa(r.created_at) THEN NaN ELSE DaysBetween(now, Normalize(r.created_at))

\* the days after signup that a flag column stands for
OffsetOfFlag(c) ==
    periods_sessions[CHOOSE k \in 1..Len(periods_flags) :
                        periods_flags[k].flag_col = c].period_days

\* the company table with the flags a notebook derives from the session
\* export: days_since_signup and one flag per period
FlagsFromSessions(d, sessions, now) ==
    Table(FullCols,
          [i \in 1..Len(d.rows) |->
              [c \in FullCols |->
                  CASE c \in {"company_id", "created_at"} -> d.rows[i][c]
                    [] c = "days_since_signup" -> AgeAt(d.rows[i], now)
                    [] OTHER -> ActiveAfter(d.rows[i], sessions, OffsetOfFlag(c))]])

\* company tables and the session export their flags were derived from
DerivedFlagInputs(companies, sessions) ==
    {[df |-> FlagsFromSessions(d, s, SampleNow), sessions |-> s, now |-> SampleNow] :
        d \in {t \in SessionPathTables(companies) : SessionPathCols \subseteq t.cols},
        s \in {t \in SessionTables(sessions) : ~t.present \/ SessionCols \subseteq t.cols}}

\* the arguments of a call: tables of up to `companies` companies and up to
\* `sessions` session lines
RetentionInputs(companies, sessions) ==
    {[df |-> d, sessions |-> s, now |-> SampleNow] :
        d \in {None, Table(FullCols, <<>>)} \cup FlagTables(companies)
              \cup WeekTables(companies),
        s \in {None, Table(SessionCols, <<SessionRow("1", SampleNow)>>)}}
    \cup {[df |-> d, sessions |-> s, now |-> SampleNow] :
            d \in SessionPathTables(companies), s \in SessionTables(sessions)}
    \cup {[df |-> d, sessions |-> s, now |-> n] :
            d \in RungTables, s \in SessionTables(sessions), n \in Nows}
    \cup DerivedFlagInputs(companies, sessions)

InitRetention ==
    /\ files = NoFiles
    /\ denyfile = NoDeny
    /\ cache = EmptyCache
    /\ data = NoData
    /\ served = NotServed
    /\ funnel = NoFunnel
    /\ \E in \in RetentionInputs(MaxCompanies, MaxSessions) :
          /\ signups_df = in.df
          /\ user_sessions_df = in.sessions
          /\ today = in.now
    /\ retention = NotComputed
    /\ cohort = NotComputed
    /\ session_state = Authenticated
    /\ overview = NoOverview
    /\ notebook = NoNotebook
    /\ pc = "view"

RetentionCurve ==
    /\ pc = "view"
    /\ retention' = [computed |-> TRUE]
                    @@ calculate_retention_curve(signups_df, user_sessions_df, today)
    /\ pc' = "curve"
    /\ UNCHANGED <<files, denyfile, cache, data, served, funnel,
                   signups_df, user_sessions_df, today, cohort, session_state, overview,
                   notebook>>

CohortRetention ==
    /\ pc = "view"
    /\ cohort' = [computed |-> TRUE] @@ calculate_cohort_retention(signups_df)
    /\ pc' = "cohort"
    /\ UNCHANGED <<files, denyfile, cache, data, served, funnel,
                   signups_df, user_sessions_df, today, retention, session_state, overview,
                   notebook>>

\* render_overview, lines 1617-1711: the retention curve section over the
\* filtered companies; the chart is drawn whenever the overall curve is a frame
RetentionSection(filtered, user_sessions, now) ==
    IF NonEmpty(user_sessions)
    THEN LET overall_ret == calculate_retention_curve(filtered, user_sessions, now)
             brain_users == Filter(filtered, LAMBDA r : r.has_brain_studio = TRUE)
             brain_ret == IF "has_brain_studio" \in filtered.cols /\ NonEmpty(brain_users)
                          THEN calculate_retention_curve(brain_users, user_sessions, now)
                          ELSE Absent
             connect_users == Filter(filtered, LAMBDA r : r.has_connect = TRUE)
             connect_ret == IF "has_connect" \in filtered.cols /\ NonEmpty(connect_users)
                            THEN calculate_retention_curve(connect_users, user_sessions, now)
                            ELSE Absent
         IN  [shown |-> IF overall_ret.absent THEN "not enough data" ELSE "chart",
              brain |-> brain_ret.records, connect |-> connect_ret.records]
             @@ overall_ret
    ELSE [shown |-> "no session data", brain |-> <<>>, connect |-> <<>>] @@ Absent

\* render_overview, lines 1713-1724: the cohort section
CohortSection(filtered) ==
    LET cohort_retention == calculate_cohort_retention(filtered)
    IN  [shown |-> IF ~cohort_retention.absent /\ Len(cohort_retention.records) > 0
                   THEN "heatmap" ELSE "not enough data"]
        @@ cohort_retention

\* render_overview, lines 1489-1500: the weekly signups trend, one record per
\* week that holds a signup, ascending
WeeklySignups(filtered) ==
    IF "created_at" \in filtered.cols /\ Column(filtered, "created_at") \ {NaN} # {}
    THEN LET weeks == SortedSeq({WeekStart(filtered.rows[i].created_at) :
                                    i \in 1..Len(filtered.rows)} \ {NaN})
         IN  [w \in 1..Len(weeks) |->
                 [signup_week |-> weeks[w],
                  signups |-> Len(SelectSeq(filtered.rows,
                                 LAMBDA r : WeekStart(r.created_at) = weeks[w]))]]
    ELSE <<>>

\* the overview page renders the trend and both sections for a non-empty filtered view
\* (lines 1303-1305 return before them for an empty one)
RenderRetention ==
    /\ pc = "view"
    /\ NonEmpty(signups_df)
    /\ retention' = [computed |-> TRUE]
                    @@ RetentionSection(signups_df, user_sessions_df, today)
    /\ cohort' = [computed |-> TRUE, weekly |-> WeeklySignups(signups_df)]
                 @@ CohortSection(signups_df)
    /\ pc' = "overview"
    /\ UNCHANGED <<files, denyfile, cache, data, served, funnel,
                   signups_df, user_sessions_df, today, session_state, overview,
                   notebook>>

NextRetention == RetentionCurve \/ CohortRetention \/ RenderRetention

SpecRetention == InitRetention /\ [][NextRetention]_vars

-----------------------------------------------------------------------------
(* What the retention claims count, stated over the inputs *)

\* the curve reads the flags when these columns exist, the sessions otherwise
FlagPath ==
    {"retained_day1", "retained_week1", "days_since_signup"} \subseteq signups_df.cols

\* the days after signup that a period of the ladder stands for
LadderOffset(period) ==
    CASE period = "Day 1" -> 1
      [] period = "Week 1" -> 7
      [] period = "Week 2" -> 14
      [] period = "Week 3" -> 21
      [] period = "Week 4" -> 28
      [] period = "Week 5" -> 35
      [] period = "Week 6" -> 42
      [] period = "Week 7" -> 49
      [] period = "Week 8" -> 56

LadderPeriods == {periods_sessions[k].period : k \in 1..Len(periods_sessions)}

FlagOf(period) == (CHOOSE k \in 1..Len(periods_flags) :
                       periods_flags[k].period = period)

\* the session lines of company i; line 0 stands for a company without one
SessionLinesOf(i) ==
    LET lines == {j \in 1..Len(user_sessions_df.rows) :
                     ToNumeric(user_sessions_df.rows[j].company_id)
                         = signups_df.rows[i].company_id}
    IN  IF lines = {} THEN {0} ELSE lines

\* what the curve counts: companies on the flag path, and on the session
\* path a company once per session line of its id
Counted ==
    IF FlagPath
    THEN {<<i, 0>> : i \in 1..Len(signups_df.rows)}
    ELSE UNION {{<<i, j>> : j \in SessionLinesOf(i)} : i \in 1..Len(signups_df.rows)}

AgeOf(i) ==
    IF FlagPath
    THEN signups_df.rows[i].days_since_signup
    ELSE IF IsNa(signups_df.rows[i].created_at)
         THEN NaN
         ELSE (today - Normalize(signups_df.rows[i].created_at)) \div 2

OldEnough(i, age) == ~IsNa(AgeOf(i)) /\ AgeOf(i) >= age

\* the company of a counted line is still active `period` after signup
ActiveAt(c, period) ==
    IF FlagPath
    THEN signups_df.rows[c[1]][periods_flags[FlagOf(period)].flag_col] = TRUE
    ELSE /\ c[2] # 0
         /\ ~IsNa(user_sessions_df.rows[c[2]].last_session)
         /\ ~IsNa(signups_df.rows[c[1]].created_at)
         /\ (Normalize(user_sessions_df.rows[c[2]].last_session)
               - Normalize(signups_df.rows[c[1]].created_at)) \div 2
            >= LadderOffset(period)

EligibleOf(rec) == IF FlagPath THEN rec.eligible ELSE rec.eligible_signups
RetainedOf(rec) == IF FlagPath THEN rec.retained ELSE rec.still_active

CurveReturned == pc = "curve" /\ ~retention.absent /\ ~retention.raised
CohortReturned == pc = "cohort" /\ ~cohort.absent /\ ~cohort.raised

RecordsOf(period) ==
    {k \in 1..Len(retention.records) : retention.records[k].period = period}

\* the curve's counts of a period are those of the companies at least `age` old
CurveCountsFrom(period, age) ==
    \A k \in RecordsOf(period) :
        /\ EligibleOf(retention.records[k])
             = Cardinality({c \in Counted : OldEnough(c[1], age)})
        /\ RetainedOf(retention.records[k])
             = Cardinality({c \in Counted : OldEnough(c[1], age) /\ ActiveAt(c, period)})
        /\ EligibleOf(retention.records[k]) - RetainedOf(retention.records[k])
             = Cardinality({c \in Counted : OldEnough(c[1], age) /\ ~ActiveAt(c, period)})

\* the companies of the cohort that starts at `week`
CohortOf(week) ==
    {i \in 1..Len(signups_df.rows) : WeekStart(signups_df.rows[i].created_at) = week}

CohortCountsFrom(period, age) ==
    \A w \in 1..Len(cohort.records) :
        LET members == CohortOf(cohort.records[w].signup_week)
            cell == cohort.records[w].periods[FlagOf(period)]
            flag == periods_flags[FlagOf(period)].flag_col
            old == {i \in members : Ge(signups_df.rows[i].days_since_signup, age)}
        IN  flag \in signups_df.cols =>
              /\ cell.eligible = Cardinality(old)
              /\ cell.retained = Cardinality({i \in old : signups_df.rows[i][flag] = TRUE})

\* C7: in the flag path, the session fallback and the weekly cohorts, the
\* eligible and retained counts of Week 1 are exactly those of the companies
\* at least 14 days old, and those of Week 2 exactly those of the companies at
\* least 21 days old; the not-retained remainder holds no younger company.
C7_EligibleByMinimumAge ==
    /\ CurveReturned =>
          CurveCountsFrom("Week 1", 14) /\ CurveCountsFrom("Week 2", 21)
    /\ CohortReturned =>
          CohortCountsFrom("Week 1", 14) /\ CohortCountsFrom("Week 2", 21)

\* a single company, 20 days old with retained_week1 true: in both Week 1
\* counts, and no Week 2 record
C7_Witness ==
    /\ CurveReturned /\ FlagPath
    /\ "retained_week2" \in signups_df.cols
    /\ Len(signups_df.rows) = 1
    /\ signups_df.rows[1].days_since_signup = 20
    /\ signups_df.rows[1].retained_week1 = TRUE
    /\ \E k \in RecordsOf("Week 1") :
          retention.records[k].eligible = 1 /\ retention.records[k].retained = 1
    /\ RecordsOf("Week 2") = {}

\* a period is reported exactly when some counted company is at least `age`
\* old and, on the flag path, the period's flag column exists
ReportedFrom(period, age) ==
    (RecordsOf(period) # {})
        <=> /\ \E c \in Counted : OldEnough(c[1], age)
            /\ FlagPath => periods_flags[FlagOf(period)].flag_col \in signups_df.cols

\* C8 as stated: every offset X of the ladder is measured over the companies
\* at least X + 6 days old.
C8_OffsetPlusSix ==
    CurveReturned =>
        \A p \in LadderPeriods :
            /\ CurveCountsFrom(p, LadderOffset(p) + 6)
            /\ ReportedFrom(p, LadderOffset(p) + 6)

\* the minimum age the code applies: 7 days for the offset of 1 day, and a
\* week more than the offset for every other offset
AppliedMinimumAge(offset) == IF offset = 1 THEN 7 ELSE offset + 7

\* C8 amended: the offset of 1 day is measured over the companies at least 7
\* days old (X + 6), and every offset X in {7, ..., 56} over the companies at
\* least X + 7 days old.
C8_MinimumAgeOfOffset ==
    CurveReturned =>
        \A p \in LadderPeriods :
            /\ CurveCountsFrom(p, AppliedMinimumAge(LadderOffset(p)))
            /\ ReportedFrom(p, AppliedMinimumAge(LadderOffset(p)))

\* a 13-day-old company: X + 6 for Week 1, yet no Week 1 record
C8_Witness ==
    /\ CurveReturned
    /\ Len(signups_df.rows) = 1
    /\ AgeOf(1) = 13
    /\ RecordsOf("Day 1") # {}
    /\ RecordsOf("Week 1") = {}

Day0Over(total) ==
    /\ Len(retention.records) >= 1
    /\ retention.records[1].period = "Day 0"
    /\ retention.records[1].retention_rate = [num |-> 100, den |-> 1]
    /\ EligibleOf(retention.records[1]) = total
    /\ RetainedOf(retention.records[1]) = total

CodeMinimumAge(period) == periods_flags[FlagOf(period)].min_age

CurveLacksInput ==
    \/ ~NonEmpty(signups_df)
    \/ /\ ~FlagPath
       /\ \/ ~NonEmpty(user_sessions_df)
          \/ "created_at" \notin signups_df.cols

CohortLacksInput ==
    \/ ~NonEmpty(signups_df)
    \/ ~(CohortRequired \subseteq signups_df.cols)

\* C10: neither function raises, and each returns None for a missing or empty
\* company table and for a table without the columns it needs.
C10_NeverRaise ==
    /\ pc = "curve" => /\ ~retention.raised
                       /\ CurveLacksInput => retention.absent
    /\ pc = "cohort" => /\ ~cohort.raised
                        /\ CohortLacksInput => cohort.absent

\* a company table without created_at and without flags, with sessions: the
\* KeyError of the session path ends as None
C10_Witness ==
    /\ pc = "curve"
    /\ NonEmpty(signups_df) /\ NonEmpty(user_sessions_df)
    /\ ~FlagPath /\ "created_at" \notin signups_df.cols
    /\ SessionCols \subseteq user_sessions_df.cols
    /\ retention.absent /\ ~retention.raised

\* no counted company is old enough for any period of the ladder
NoneEligible ==
    \A c \in Counted : \A p \in LadderPeriods : ~OldEnough(c[1], CodeMinimumAge(p))

\* the curve has something to compute from: the flags, or created_at and sessions
CurveHasInput ==
    /\ NonEmpty(signups_df)
    /\ FlagPath \/ (NonEmpty(user_sessions_df)
                     /\ {"company_id", "created_at"} \subseteq signups_df.cols
                     /\ SessionCols \subseteq user_sessions_df.cols)

\* C11: for a non-empty company table with no company eligible at any offset,
\* calculate_retention_curve returns the absent result and the overview shows
\* 'not enough data', never a chart and never an exception.
C11_NotEnoughData ==
    (CurveHasInput /\ NoneEligible) =>
        /\ pc = "curve" => retention.absent /\ ~retention.raised
        /\ (pc = "overview" /\ NonEmpty(user_sessions_df)) =>
              retention.shown = "not enough data"

-----------------------------------------------------------------------------
(* render_funnel: the flow diagram of the Overall Funnel tab *)

NotRendered == [rendered |-> FALSE]

\* lines 1837-1846: the companies of the view
FunnelView(d, date_range, plan_filter) ==
    LET analysis == get_analysis_df(d)
        byDate == Filter(analysis, LAMBDA r : InDateRange(r, date_range))
    IN  IF plan_filter # "All Plans" /\ "plan" \in byDate.cols
        THEN Filter(byDate, LAMBDA r : r.plan = plan_filter)
        ELSE byDate

\* line 1870: filtered[c].fillna(0).sum()
Popularity(filtered, c) ==
    SumSeq([i \in 1..Len(filtered.rows) |-> FillNa(filtered.rows[i][c], 0)])

\* lines 1869-1874: the base columns by descending popularity, the first
\* five of them; columns of equal popularity come in any order
Rankings(filtered) ==
    LET base == NodeTypeCols(filtered.cols) \ {"node_type_other"}
        m == IF Cardinality(base) < 5 THEN Cardinality(base) ELSE 5
    IN  {order \in [1..m -> base] :
            /\ \A j, k \in 1..m : j < k =>
                  /\ order[j] # order[k]
                  /\ Popularity(filtered, order[j]) >= Popularity(filtered, order[k])
            /\ \A c \in base \ {order[k] : k \in 1..m} : \A k \in 1..m :
                  Popularity(filtered, order[k]) >= Popularity(filtered, c)}

\* line 1875: the ranking of the view, 'other' last
NodeTypeOrder(filtered, node_type_base_cols) ==
    IF NodeTypeCols(filtered.cols) = {}
    THEN <<>>
    ELSE [k \in 1..Len(node_type_base_cols) |-> node_type_base_cols[k]]
         \o (IF "node_type_other" \in filtered.cols
             THEN <<"node_type_other">> ELSE <<>>)

\* line 1877: a row of node_type_matrix
MatrixRow(r, node_type_order) ==
    [k \in 1..Len(node_type_order) |-> FillNa(r[node_type_order[k]], 0)]

\* the last position of the largest cell
ArgMax_Last(cells) ==
    CHOOSE k \in 1..Len(cells) :
        /\ \A j \in 1..Len(cells) : cells[k] >= cells[j]
        /\ \A j \in (k + 1)..Len(cells) : cells[j] < cells[k]

\* line 1881: argmax(axis=1), the first position of the largest cell
ArgMax(cells) ==
    CHOOSE k \in 1..Len(cells) :
        /\ \A j \in 1..Len(cells) : cells[k] >= cells[j]
        /\ \A j \in 1..(k - 1) : cells[j] < cells[k]

\* lines 1878-1885: the bucket of a row, "None" for a row without flags
NodeTypeGroup(r, node_type_order) ==
    IF node_type_order # <<>> /\ SumSeq(MatrixRow(r, node_type_order)) > 0
    THEN node_type_order[ArgMax(MatrixRow(r, node_type_order))]
    ELSE "None"

\* set(df['company_id'].dropna().astype(int).unique())
IdSet(t) == Column(t, "company_id") \ {NaN}

\* number of rows of t satisfying Keep: int(mask.sum())
RowsWith(t, c) == Len(SelectSeq(t.rows, LAMBDA r : r[c]))

\* lines 1860-1898: the view with _created_node and _node_type_group; the
\* fallback applies when no row has a flag among the ranked columns
CreatedNodeFlags(view, node_type_order) ==
    LET by_flags == {i \in 1..Len(view.rows) :
                        NodeTypeGroup(view.rows[i], node_type_order) # "None"}
        fallback == by_flags = {} /\ "total_nodes_created" \in view.cols
    IN  [present |-> TRUE,
         cols |-> view.cols \cup {"_created_node", "_node_type_group"},
         rows |-> [i \in 1..Len(view.rows) |->
             [_created_node |->
                  IF fallback
                  THEN FillNa(view.rows[i].total_nodes_created, 0) > 0
                  ELSE i \in by_flags,
              _node_type_group |-> NodeTypeGroup(view.rows[i], node_type_order)]
             @@ view.rows[i]]]

\* lines 1902-1923 and 1951-1958: the id sets of column 4 and of the outcomes
EngagementSets(flagged, engagement) ==
    LET eng_filtered ==
            IF NonEmpty(engagement)
            THEN Filter(engagement, LAMBDA e : e.company_id \in IdSet(flagged))
            ELSE Table({}, <<>>)
    IN  [eng_company_ids |-> IF NonEmpty(engagement) THEN IdSet(eng_filtered) ELSE {},
         connect_company_ids |->
             IF "has_connect" \in flagged.cols
             THEN IdSet(Filter(flagged, LAMBDA r : r.has_connect = TRUE))
             ELSE {},
         sandbox_ids |->
             IF "sandbox_executions" \in eng_filtered.cols
             THEN Column(Filter(eng_filtered, LAMBDA e : Gt(e.sandbox_executions, 0)),
                         "company_id")
             ELSE {},
         prod_ids |->
             IF "prod_executions" \in eng_filtered.cols
             THEN Column(Filter(eng_filtered, LAMBDA e : Gt(e.prod_executions, 0)),
                         "company_id")
             ELSE {}]

\* lines 1925-1961: the per-company flags
CompanyFlags(flagged, ids) ==
    [present |-> TRUE,
     cols |-> flagged.cols \cup
              {"_ran_workflow", "_connect_trial", "_cross_product", "_ran_workflow_only",
               "_connect_trial_only", "_col4_engaged", "_sandbox", "_production",
               "_templates", "_paid_connect"},
     rows |-> [i \in 1..Len(flagged.rows) |->
         LET id == flagged.rows[i].company_id
         IN  [_ran_workflow |-> id \in ids.eng_company_ids,
              _connect_trial |-> id \in ids.connect_company_ids,
              _cross_product |-> id \in ids.eng_company_ids \cap ids.connect_company_ids,
              _ran_workflow_only |-> id \in ids.eng_company_ids \ ids.connect_company_ids,
              _connect_trial_only |->
                  id \in ids.connect_company_ids \ ids.eng_company_ids,
              _col4_engaged |->
                  id \in ids.eng_company_ids \/ id \in ids.connect_company_ids,
              _sandbox |-> id \in ids.sandbox_ids,
              _production |-> id \in ids.prod_ids,
              _templates |-> IF "has_template_usage" \in flagged.cols
                             THEN flagged.rows[i].has_template_usage = TRUE ELSE FALSE,
              _paid_connect |-> IF "connect_active" \in flagged.cols
                                THEN flagged.rows[i].connect_active = TRUE ELSE FALSE]
             @@ flagged.rows[i]]]

\* lines 1968-1976: the links out of a bucket of column 3 or of 'did not create'
FlowsToCol4(sub) ==
    [ran |-> RowsWith(sub, "_ran_workflow_only"),
     connect |-> RowsWith(sub, "_connect_trial_only"),
     cross |-> RowsWith(sub, "_cross_product"),
     dropped |-> Len(sub.rows) - RowsWith(sub, "_col4_engaged")]

\* max(0, n): lines 2001-2002
ClampZero(n) == IF n < 0 THEN 0 ELSE n

\* lines 1893-1894, 1925-1935 and 1963-2020: the counts and the link values
FlowValues(filtered, ids, node_type_order) ==
    LET total == Len(filtered.rows)
        buckets == {node_type_order[k] : k \in 1..Len(node_type_order)}
        no_node == FlowsToCol4(Filter(filtered, LAMBDA r : ~r._created_node))
        ran == Filter(filtered, LAMBDA r : r._ran_workflow_only)
        connect == Filter(filtered, LAMBDA r : r._connect_trial_only)
        cross == Filter(filtered, LAMBDA r : r._cross_product)
        sandbox == Filter(filtered, LAMBDA r : r._sandbox)
        templates == Filter(filtered, LAMBDA r : r._templates)
    IN  [total |-> total,
         node_type_counts |->
             [c \in buckets |->
                 Len(SelectSeq(filtered.rows, LAMBDA r : r._node_type_group = c))],
         created_node_count |-> RowsWith(filtered, "_created_node"),
         did_not_create_node_count |-> total - RowsWith(filtered, "_created_node"),
         cross_product_count |->
             Cardinality(ids.eng_company_ids \cap ids.connect_company_ids),
         ran_workflows_count |->
             Cardinality(ids.eng_company_ids \ ids.connect_company_ids),
         connect_trial_count |->
             Cardinality(ids.connect_company_ids \ ids.eng_company_ids),
         node_type_to_col4 |->
             [c \in buckets |->
                 FlowsToCol4(Filter(filtered, LAMBDA r : r._node_type_group = c))],
         no_node_to_ran |-> no_node.ran,
         no_node_to_connect |-> no_node.connect,
         no_node_to_cross |-> no_node.cross,
         no_node_no_action |-> no_node.dropped,
         ran_to_sandbox |-> RowsWith(ran, "_sandbox"),
         ran_to_dropped |-> Len(ran.rows) - RowsWith(ran, "_sandbox"),
         connect_to_templates |-> RowsWith(connect, "_templates"),
         connect_to_dropped |-> Len(connect.rows) - RowsWith(connect, "_templates"),
         cross_to_sandbox |-> RowsWith(cross, "_sandbox"),
         cross_to_templates |-> RowsWith(cross, "_templates"),
         cross_to_dropped |->
             ClampZero(Len(cross.rows) - RowsWith(cross, "_sandbox")
                       - RowsWith(cross, "_templates")),
         sandbox_to_prod |-> RowsWith(sandbox, "_production"),
         sandbox_to_dropped |-> Len(sandbox.rows) - RowsWith(sandbox, "_production"),
         templates_to_paid |-> RowsWith(templates, "_paid_connect"),
         templates_to_dropped |->
             Len(templates.rows) - RowsWith(templates, "_paid_connect"),
         final_production |-> RowsWith(filtered, "_production"),
         final_paid |-> RowsWith(filtered, "_paid_connect"),
         final_no_further |-> no_node.dropped,
         final_dropped |-> total - RowsWith(filtered, "_production")
                           - RowsWith(filtered, "_paid_connect") - no_node.dropped]

\* lines 1824-2020 of the first tab, for the ranking node_type_base_cols that
\* sort_values produced: the counts, the per-company flags and the flows
render_funnel(d, date_range, plan_filter, node_type_base_cols) ==
    LET view == FunnelView(d, date_range, plan_filter)
        node_type_order == NodeTypeOrder(view, node_type_base_cols)
        flagged == CreatedNodeFlags(view, node_type_order)
        ids == EngagementSets(flagged, d.company_engagement)
        filtered == CompanyFlags(flagged, ids)
    IN  IF ~get_analysis_df(d).present
        THEN [rendered |-> TRUE, shown |-> "nothing"]
        ELSE IF Len(view.rows) = 0
        THEN [rendered |-> TRUE, shown |-> "No data in the selected date range."]
        ELSE [rendered |-> TRUE, shown |-> "diagram",
              filtered |-> filtered,
              node_type_order |-> node_type_order]
             @@ FlowValues(filtered, ids, node_type_order)

-----------------------------------------------------------------------------
(* Flow diagram: a precomputed table, company_engagement.csv and
   sessions_duration.csv *)

MaxFlowCompanies == 2   \* rows of analysis_combined.csv
MaxFlowWrites == 2      \* rows written to the two source files

FlowBaseCols ==
    {"company_id", "created_at", "retained_week1", "bot_count",
     "has_connect", "connect_active", "has_template_usage", "has_prod_channel"}
FlowFlagCols == {"node_type_message", "node_type_code", "node_type_other"}
SixTypeCols == {NodeTypeFlagName(v) : v \in FlagTypeIds}

\* what a company did: node type flags, nodes created, Connect and templates
FlowProfiles ==
    {[node_type_message |-> 0, node_type_code |-> 0, node_type_other |-> 0,
      total_nodes_created |-> 0, created_at |-> 5, has_prod_channel |-> FALSE,
      has_connect |-> FALSE, connect_active |-> FALSE, has_template_usage |-> FALSE],
     [node_type_message |-> 1, node_type_code |-> 1, node_type_other |-> 0,
      total_nodes_created |-> 3, created_at |-> 5, has_prod_channel |-> FALSE,
      has_connect |-> TRUE, connect_active |-> TRUE, has_template_usage |-> TRUE],
     [node_type_message |-> 1, node_type_code |-> 0, node_type_other |-> 1,
      total_nodes_created |-> 3, created_at |-> 7, has_prod_channel |-> FALSE,
      has_connect |-> FALSE, connect_active |-> FALSE, has_template_usage |-> FALSE],
     [node_type_message |-> NaN, node_type_code |-> NaN, node_type_other |-> NaN,
      total_nodes_created |-> 3, created_at |-> 5, has_prod_channel |-> TRUE,
      has_connect |-> TRUE, connect_active |-> FALSE, has_template_usage |-> FALSE]}

FlowRow(cols, id, profile) ==
    [c \in cols |->
        CASE c = "company_id" -> id
          [] c \in {"retained_week1", "bot_count"} -> 0
          [] OTHER -> profile[c]]

\* precomputed tables of up to n companies, one row each; the first may
\* have lost its id
FlowTablesOf(cols, n) ==
    {Table(cols, [i \in 1..k |-> FlowRow(cols, ids[i], profiles[i])]) :
        <<k, ids, profiles>> \in
            UNION {{k} \X {ids \in [1..k -> {1, 2, NaN}] :
                            \A i \in 1..k : ids[i] = i \/ (i = 1 /\ ids[i] = NaN)}
                       \X [1..k -> FlowProfiles] : k \in 1..n}}

\* a precomputed table with six node types: two companies used the five
\* popular ones, a third one the sixth
SixTypeTable ==
    LET cols == FlowBaseCols \cup SixTypeCols
        row(id, used) ==
            [c \in cols |->
                CASE c = "company_id" -> id
                  [] c = "created_at" -> 5
                  [] c \in {"retained_week1", "bot_count"} -> 0
                  [] c \in SixTypeCols -> IF c \in used THEN 1 ELSE 0
                  [] OTHER -> FALSE]
    IN  Table(cols, <<row(1, SixTypeCols \ {"node_type_7"}),
                      row(2, SixTypeCols \ {"node_type_7"}),
                      row(3, {"node_type_7"})>>)

FlowTables(n) ==
    FlowTablesOf(FlowBaseCols \cup FlowFlagCols \cup {"total_nodes_created"}, n)
    \cup FlowTablesOf(FlowBaseCols \cup {"total_nodes_created"}, n)
    \cup {SixTypeTable}

\* rows of company_engagement.csv, its ids read as numbers
FlowEngagementRows ==
    {[company_id |-> 1, sandbox_executions |-> 0, prod_executions |-> 0],
     [company_id |-> 1, sandbox_executions |-> 1, prod_executions |-> 0],
     [company_id |-> 1, sandbox_executions |-> 1, prod_executions |-> 1],
     [company_id |-> 2, sandbox_executions |-> 1, prod_executions |-> 1],
     [company_id |-> NaN, sandbox_executions |-> 1, prod_executions |-> 1]}

InitFlow ==
    /\ files \in {[NoFiles EXCEPT !.analysis = t,
                                  !.signups = Project(t, {"company_id", "created_at"})] :
                     t \in FlowTables(MaxFlowCompanies)}
    /\ Idle

\* an export appends a row to company_engagement.csv
WriteEngagement ==
    /\ pc = "files"
    /\ Writes < MaxFlowWrites
    /\ \E r \in FlowEngagementRows :
          files' = [files EXCEPT !.company_engagement =
                       Table(Header("company_engagement"), @.rows \o <<r>>)]
    /\ UNCHANGED <<denyfile, cache, data, served, funnel, signups_df,
                   user_sessions_df, today, retention, cohort, pc, session_state, overview,
                   notebook>>

WriteSessionsDuration == WriteRowTo({"sessions_duration"}, MaxFlowWrites)

\* the Activation Funnel page is rendered
RenderFunnel ==
    /\ pc = "loaded"
    /\ \E date_range \in DateRanges :
       \E node_type_base_cols \in Rankings(FunnelView(data, date_range, "All Plans")) :
          funnel' = render_funnel(data, date_range, "All Plans", node_type_base_cols)
    /\ pc' = "flow"
    /\ UNCHANGED <<files, denyfile, cache, data, served, signups_df,
                   user_sessions_df, today, retention, cohort, session_state, overview,
                   notebook>>

NextFlow == WriteEngagement \/ WriteSessionsDuration \/ Main \/ RenderFunnel

SpecFlow == InitFlow /\ [][NextFlow]_vars

\* the diagram of a view with at least one company was drawn
Drawn == pc = "flow" /\ funnel.shown = "diagram"

\* the buckets of column 3
Buckets == {funnel.node_type_order[k] : k \in 1..Len(funnel.node_type_order)}

\* the companies of the view in neither set of column 4
Neither ==
    Len(SelectSeq(funnel.filtered.rows, LAMBDA r : ~r._col4_engaged))

\* C12: in a view with at least one company the volumes of every full column
\* add up to the total: created node + did not create; ran workflows only +
\* trial only + cross-product + neither; live in production + paid + dropped
\* off + no further actions.
C12_Conservation ==
    Drawn =>
        /\ funnel.created_node_count + funnel.did_not_create_node_count = funnel.total
        /\ funnel.ran_workflows_count + funnel.connect_trial_count
           + funnel.cross_product_count + Neither = funnel.total
        /\ funnel.final_production + funnel.final_paid + funnel.final_dropped
           + funnel.final_no_further = funnel.total

\* the terminal buckets a row of the view is counted in
InProduction(r) == r._production
InPaid(r) == r._paid_connect
InNoFurther(r) == ~r._created_node /\ ~r._col4_engaged
TerminalCount(r) ==
    (IF InProduction(r) THEN 1 ELSE 0) + (IF InPaid(r) THEN 1 ELSE 0)
    + (IF InNoFurther(r) THEN 1 ELSE 0)

\* C13: column 6 partitions the companies of the view: a company is live in
\* production, paid or without further actions at most once, 'dropped off'
\* holds exactly the companies in none of the three, every volume is the
\* size of its bucket and none is negative.
C13_TerminalPartition ==
    Drawn =>
        LET rows == funnel.filtered.rows
        IN  /\ \A i \in 1..Len(rows) : TerminalCount(rows[i]) <= 1
            /\ funnel.final_production = Len(SelectSeq(rows, InProduction))
            /\ funnel.final_paid = Len(SelectSeq(rows, InPaid))
            /\ funnel.final_no_further = Len(SelectSeq(rows, InNoFurther))
            /\ funnel.final_dropped =
                  Len(SelectSeq(rows, LAMBDA r : TerminalCount(r) = 0))
            /\ funnel.final_dropped >= 0

\* the volumes of column 3, bucket by bucket (lines 2134-2136)
BucketVolumes ==
    [k \in 1..Len(funnel.node_type_order) |->
        funnel.node_type_counts[funnel.node_type_order[k]]]

\* C14: the node type buckets of column 3 add up to the 'created node' count
\* of column 2, whether the count comes from the node type flags or from
\* total_nodes_created > 0.
C14_BucketsSumToCreated ==
    Drawn => SumSeq(BucketVolumes) = funnel.created_node_count

\* the node type flags a row of the view has set, among the columns cs
Used(r, cs) == {c \in cs : FillNa(r[c], 0) > 0}

\* the position of a bucket in the ranking of the view
Rank(c) == CHOOSE k \in 1..Len(funnel.node_type_order) : funnel.node_type_order[k] = c

\* the ranking is by popularity in the view, 'other' last
RankedByPopularity ==
    \A j, k \in 1..Len(funnel.node_type_order) : j < k =>
        /\ funnel.node_type_order[j] # "node_type_other"
        /\ funnel.node_type_order[k] # "node_type_other" =>
              Popularity(funnel.filtered, funnel.node_type_order[j])
                  >= Popularity(funnel.filtered, funnel.node_type_order[k])

\* every row with a flag among cs is in the one bucket that ranks first
\* among the flags it has set, every other row in none, and the volume of a
\* bucket is the number of its rows
AssignedAmong(cs) ==
    LET rows == funnel.filtered.rows
    IN  /\ \A i \in 1..Len(rows) :
              IF Used(rows[i], cs) = {}
              THEN rows[i]._node_type_group = "None"
              ELSE /\ rows[i]._node_type_group \in Used(rows[i], cs) \cap Buckets
                   /\ \A c \in Used(rows[i], cs) \cap Buckets :
                         Rank(rows[i]._node_type_group) <= Rank(c)
        /\ \A c \in Buckets :
              funnel.node_type_counts[c] =
                  Len(SelectSeq(rows, LAMBDA r : r._node_type_group = c))

-----------------------------------------------------------------------------
(* Weekly cohorts against the flag curve *)

\* the eligible and retained counts the flag-based curve computes for a
\* period over the companies `group`; it has no record where none is eligible
CurveCounts(group, period) ==
    LET curve == calculate_retention_curve(group, None, today)
        recs == {k \in 1..Len(curve.records) : curve.records[k].period = period}
    IN  IF recs = {}
        THEN [eligible |-> 0, retained |-> 0]
        ELSE LET rec == curve.records[CHOOSE k \in recs : TRUE]
             IN  [eligible |-> rec.eligible, retained |-> rec.retained]

\* the cohort table was returned, by the function or within the overview
CohortComputed ==
    pc \in {"cohort", "overview"} /\ ~cohort.absent /\ ~cohort.raised

\* C16: for every signup week and period the eligible and retained counts of
\* the cohort table are those of the flag-based curve over the companies of
\* that week alone, and summed over the weeks they are those of the curve
\* over all companies with a created_at.
C16_CohortRefinesCurve ==
    CohortComputed =>
        \A k \in 1..Len(periods_cohort) :
            LET period == periods_cohort[k].period
                dated == Filter(signups_df, LAMBDA r : ~IsNa(r.created_at))
                cell(w) == cohort.records[w].periods[k]
            IN  /\ \A w \in 1..Len(cohort.records) :
                      LET group == Filter(signups_df, LAMBDA r :
                              WeekStart(r.created_at) = cohort.records[w].signup_week)
                      IN  /\ cell(w).period = period
                          /\ cell(w).eligible = CurveCounts(group, period).eligible
                          /\ cell(w).retained = CurveCounts(group, period).retained
                /\ SumSeq([w \in 1..Len(cohort.records) |-> cell(w).eligible])
                      = CurveCounts(dated, period).eligible
                /\ SumSeq([w \in 1..Len(cohort.records) |-> cell(w).retained])
                      = CurveCounts(dated, period).retained

\* two companies of different signup weeks, both eligible for Day 1 and one
\* retained: one cohort each, and the curve over both counts 2 and 1
C16_Witness ==
    /\ CohortComputed
    /\ Len(cohort.records) = 2
    /\ cohort.records[1].periods[1].eligible = 1
    /\ cohort.records[2].periods[1].eligible = 1
    /\ cohort.records[1].periods[1].retained + cohort.records[2].periods[1].retained = 1
    /\ CurveCounts(signups_df, "Day 1") = [eligible |-> 2, retained |-> 1]

\* the companies with a created_at
Dated ==
    IF "created_at" \in signups_df.cols
    THEN {i \in 1..Len(signups_df.rows) : ~IsNa(signups_df.rows[i].created_at)}
    ELSE {}

\* the week of a record starts on a Monday 00:00 and holds the timestamp
\* up to the end of its Sunday
InWeekOf(rec, ts) ==
    /\ rec.signup_week % HalfDays(7) = 0
    /\ rec.signup_week <= ts /\ ts < rec.signup_week + HalfDays(7)

\* the records of a weekly table whose week holds the created_at of company i
WeeksOf(records, i) ==
    {w \in 1..Len(records) : InWeekOf(records[w], signups_df.rows[i].created_at)}

Ascending(records) ==
    \A v, w \in 1..Len(records) : v < w => records[v].signup_week < records[w].signup_week

\* C17: every company with a created_at is in exactly one cohort, the Monday
\* to Sunday week that holds its created_at; the cohorts come in ascending
\* week order; the weekly signups trend of the overview has the company in
\* the same week.
C17_OneWeekPerCompany ==
    /\ CohortComputed =>
          /\ \A i \in Dated : Cardinality(WeeksOf(cohort.records, i)) = 1
          /\ \A w \in 1..Len(cohort.records) :
                /\ cohort.records[w].week_end = cohort.records[w].signup_week + HalfDays(6)
                /\ cohort.records[w].total_signups =
                      Cardinality({i \in Dated : w \in WeeksOf(cohort.records, i)})
          /\ Ascending(cohort.records)
    /\ pc = "overview" =>
          /\ \A i \in Dated : Cardinality(WeeksOf(cohort.weekly, i)) = 1
          /\ \A w \in 1..Len(cohort.weekly) :
                cohort.weekly[w].signups =
                    Cardinality({i \in Dated : w \in WeeksOf(cohort.weekly, i)})
          /\ Ascending(cohort.weekly)
          /\ ~cohort.absent =>
                \A i \in Dated :
                    {cohort.records[w].signup_week : w \in WeeksOf(cohort.records, i)}
                    = {cohort.weekly[w].signup_week : w \in WeeksOf(cohort.weekly, i)}

\* a company that signed up on a Sunday and one that signed up on the Monday
\* after it: two cohorts, the Sunday's first, and the same two weeks in the
\* trend
C17_Witness ==
    /\ pc = "overview" /\ ~cohort.absent
    /\ Len(signups_df.rows) = 2
    /\ signups_df.rows[1].created_at = CreatedAt(14)
    /\ signups_df.rows[2].created_at = CreatedAt(15)
    /\ Len(cohort.records) = 2 /\ Len(cohort.weekly) = 2
    /\ WeeksOf(cohort.records, 2) = {1} /\ WeeksOf(cohort.weekly, 2) = {1}
    /\ WeeksOf(cohort.records, 1) = {2} /\ WeeksOf(cohort.weekly, 1) = {2}

-----------------------------------------------------------------------------
(* Null ids in the feature join *)

\* the company_id cell of a row of source k is null or no number
NullSourceId(k, r) ==
    CASE k \in {"bots", "credit_wallet", "stripe_invoices"} -> IsNa(r.company_id)
      [] k = "sessions_duration" -> IsNa(ToNumeric(r._id))
      [] OTHER -> IsNa(ToNumeric(r.company_id))

\* row i of the joined table has the defaults of source k
RowDefaulted(i, k) ==
    \A c \in DOMAIN DerivedDefaults(k) :
        data.analysis.rows[i][c] = DerivedDefaults(k)[c]

\* C18: a null or unparseable company_id matches nothing in the feature
\* join: a signup without id has the default of every column derived from
\* the seven sources, and a source whose rows all lack an id sets no flag
\* and adds to no count of any company.
C18_NullIdNeverMatches ==
    BuiltFromSignups =>
        /\ \A i \in 1..Len(data.analysis.rows) :
              IsNa(data.analysis.rows[i].company_id) =>
                  \A k \in SourceKeys : RowDefaulted(i, k)
        /\ \A k \in SourceKeys :
              (\A j \in 1..Len(files[k].rows) : NullSourceId(k, files[k].rows[j]))
                  => Defaulted(data.analysis, DerivedDefaults(k))

-----------------------------------------------------------------------------
(* Frame of create_corrected_analysis *)

\* two tables hold the same cells, text and numbers told apart
SameTable(a, b) ==
    /\ a.present = b.present /\ a.cols = b.cols /\ Len(a.rows) = Len(b.rows)
    /\ \A i \in 1..Len(a.rows) : \A c \in a.cols :
          ToString(a.rows[i][c]) = ToString(b.rows[i][c])

\* C19: create_corrected_analysis leaves the tables it receives as they
\* were read: after the load every source table of the data is the table of
\* its file.
C19_SourcesUnchanged ==
    pc = "loaded" => \A k \in SourceKeys : SameTable(data[k], files[k])

-----------------------------------------------------------------------------
(* Frame of the precomputed path *)

\* the columns the precomputed path may add
BackfillCols ==
    {SessionsDurationNames[k] : k \in 2..Len(SessionsDurationNames)}
    \cup {"session_count_sd", "total_nodes_created", "created_node", "node_type_other"}
    \cup {NodeTypeFlagName(v) : v \in FlagTypeIds}

\* C20: given a precomputed table (markers retained_week1 and bot_count) the
\* analysis holds every company that survives exclusion exactly once, in
\* order, with the value of every input column unchanged; the columns added
\* are session-duration and node-type columns the input lacks, 0 where no
\* source row matches.
C20_PrecomputedKept ==
    (pc = "loaded" /\ IsPrecomputed(files.analysis)) =>
        LET added == data.analysis.cols \ files.analysis.cols
        IN  /\ files.analysis.cols \subseteq data.analysis.cols
            /\ Project(data.analysis, files.analysis.cols)
                  = ExcludeAnalysis(files.analysis, denyfile)
            /\ added \subseteq BackfillCols
            /\ \A i \in 1..Len(data.analysis.rows) : \A c \in added :
                  ~IsNa(data.analysis.rows[i][c])

-----------------------------------------------------------------------------
(* render_overview: the stage summary of Engagement & Session Analysis *)

\* truth value of a cell in an `if`: False and 0 are falsy, NaN is truthy
Truthy(x) == ToString(x) \notin {"FALSE", "0"}

\* row.get(c, default)
GetCell(row, c, default) == IF c \in DOMAIN row THEN row[c] ELSE default

StageNames ==
    <<"4. Paid", "3. Production", "2. Created Bot", "1. Logged In", "0. Signup Only">>

\* lines 1579-1584
get_funnel_stage(row) ==
    IF Truthy(GetCell(row, "actually_paid", FALSE)) THEN "4. Paid"
    ELSE IF Truthy(GetCell(row, "has_prod_channel", FALSE)) THEN "3. Production"
    ELSE IF Truthy(GetCell(row, "has_bot", FALSE)) THEN "2. Created Bot"
    ELSE IF Gt(GetCell(row, "total_time_minutes", 0), 0) THEN "1. Logged In"
    ELSE "0. Signup Only"

\* lines 1586-1591: groupby('Funnel Stage')['total_time_minutes'].agg(['mean',
\* 'count']); 'count' is the number of cells of the group that hold a value
StageSummary(corr_df) ==
    LET stages == {corr_df.rows[i]["Funnel Stage"] : i \in 1..Len(corr_df.rows)}
    IN  [st \in stages |->
            [Account_Count |->
                Len(SelectSeq(corr_df.rows,
                      LAMBDA r : r["Funnel Stage"] = st
                                 /\ ~IsNa(r.total_time_minutes)))]]

\* lines 1285-1305 and 1560-1617 of render_overview
render_overview(d, date_range, plan_filter) ==
    LET filtered == FunnelView(d, date_range, plan_filter)
        corr_df == [present |-> TRUE,
                    cols |-> filtered.cols \cup {"Funnel Stage"},
                    rows |-> [i \in 1..Len(filtered.rows) |->
                        [c \in {"Funnel Stage"} |-> get_funnel_stage(filtered.rows[i])]
                        @@ filtered.rows[i]]]
    IN  IF ~get_analysis_df(d).present
        THEN [rendered |-> TRUE, shown |-> "No data available"]
        ELSE IF Len(filtered.rows) = 0
        THEN [rendered |-> TRUE, shown |-> "No data for selected filters"]
        ELSE IF "total_time_minutes" \notin filtered.cols
        THEN [rendered |-> TRUE, shown |-> "Session duration data not available",
              total_signups |-> Len(filtered.rows)]
        ELSE [rendered |-> TRUE, shown |-> "stages",
              total_signups |-> Len(filtered.rows),
              corr_df |-> corr_df,
              stage_summary |-> StageSummary(corr_df)]

-----------------------------------------------------------------------------
(* Overview: a precomputed table with or without total_time_minutes,       *)
(* sessions_duration.csv, and the Overview page                            *)

MaxOverviewCompanies == 2
MaxOverviewWrites == 1

StageCols == {"actually_paid", "has_prod_channel", "has_bot"}
OverviewCols ==
    {"company_id", "created_at", "retained_week1", "bot_count"} \cup StageCols

\* a company of each stage; the notebook's left merge of the session export
\* leaves total_time_minutes empty for a company without sessions
OverviewProfiles ==
    {[actually_paid |-> FALSE, has_prod_channel |-> FALSE, has_bot |-> FALSE,
      total_time_minutes |-> 0, created_at |-> 5],
     [actually_paid |-> FALSE, has_prod_channel |-> FALSE, has_bot |-> FALSE,
      total_time_minutes |-> 7, created_at |-> 5],
     [actually_paid |-> FALSE, has_prod_channel |-> FALSE, has_bot |-> TRUE,
      total_time_minutes |-> NaN, created_at |-> 7],
     [actually_paid |-> FALSE, has_prod_channel |-> TRUE, has_bot |-> TRUE,
      total_time_minutes |-> 7, created_at |-> 5],
     [actually_paid |-> TRUE, has_prod_channel |-> TRUE, has_bot |-> TRUE,
      total_time_minutes |-> 7, created_at |-> 5],
     [actually_paid |-> TRUE, has_prod_channel |-> FALSE, has_bot |-> FALSE,
      total_time_minutes |-> 0, created_at |-> 7]}

OverviewTablesOf(cols, n) ==
    {Table(cols, [i \in 1..k |-> FlowRow(cols, i, profiles[i])]) :
        <<k, profiles>> \in UNION {{k} \X [1..k -> OverviewProfiles] : k \in 1..n}}

OverviewTables(n) ==
    OverviewTablesOf(OverviewCols, n)
    \cup OverviewTablesOf(OverviewCols \cup {"total_time_minutes"}, n)

InitOverview ==
    /\ files \in {[NoFiles EXCEPT !.analysis = t,
                                  !.signups = Project(t, {"company_id", "created_at"})] :
                     t \in OverviewTables(MaxOverviewCompanies)}
    /\ Idle

WriteOverviewSessions == WriteRowTo({"sessions_duration"}, MaxOverviewWrites)

\* the Overview page is rendered
RenderOverview ==
    /\ pc = "loaded"
    /\ \E date_range \in DateRanges :
          overview' = render_overview(data, date_range, "All Plans")
    /\ pc' = "overview"
    /\ UNCHANGED <<files, denyfile, cache, data, served, funnel, signups_df,
                   user_sessions_df, today, retention, cohort, session_state,
                   notebook>>

NextOverview == WriteOverviewSessions \/ Main \/ RenderOverview

SpecOverview == InitOverview /\ [][NextOverview]_vars

\* the stage summary was drawn
StagesDrawn == pc = "overview" /\ overview.shown = "stages"

\* the account count the summary shows for a stage
AccountCount(stage) ==
    IF stage \in DOMAIN overview.stage_summary
    THEN overview.stage_summary[stage].Account_Count
    ELSE 0

\* the stage of a company by first match: paid, production, bot, logged in
StageByPrecedence(r) ==
    IF r.actually_paid = TRUE THEN "4. Paid"
    ELSE IF r.has_prod_channel = TRUE THEN "3. Production"
    ELSE IF r.has_bot = TRUE THEN "2. Created Bot"
    ELSE IF Gt(r.total_time_minutes, 0) THEN "1. Logged In"
    ELSE "0. Signup Only"

\* C21: every company of the view is in the one stage its flags give by first
\* match (Paid, Production, Created Bot, Logged In, Signup Only), and the
\* account counts of the five stages add up to the companies of the view
C21_StageCountsSumToView ==
    StagesDrawn =>
        /\ \A i \in 1..Len(overview.corr_df.rows) :
              overview.corr_df.rows[i]["Funnel Stage"]
                  = StageByPrecedence(overview.corr_df.rows[i])
        /\ SumSeq([k \in 1..Len(StageNames) |-> AccountCount(StageNames[k])])
              = overview.total_signups

-----------------------------------------------------------------------------
(* An unreadable deny-list *)

\* the deny-list file, were it readable and its list empty
ReadableEmpty(deny) == [deny EXCEPT !.readable = TRUE, !.names = {}]

\* load_data ran on the files as they are, with a deny-list it could not read
LoadedUnreadable ==
    /\ pc = "loaded"
    /\ ~served.hit
    /\ served.deny = denyfile
    /\ denyfile.exists
    /\ ~denyfile.readable

\* C22: when excluded_companies.json exists and cannot be read, load_data
\* returns (no exception), prints a warning, and returns what it returns for a
\* readable file with an empty list: no company removed by the deny-list, the
\* email and slug rules applied, the joined table built
C22_UnreadableDenyList ==
    LoadedUnreadable =>
        /\ served.warnings # {}
        /\ data = LoadData(files, ReadableEmpty(denyfile))

\* the same, for the runs that found signups.csv
C22_UnreadableWithSignups ==
    (LoadedUnreadable /\ files.signups.present) =>
        /\ served.warnings # {}
        /\ data = LoadData(files, ReadableEmpty(denyfile))
        /\ data.analysis.present

-----------------------------------------------------------------------------
(* The passphrase gate: a new browser session, the text input and main *)

\* texts a visitor types into the input
PasswordTexts == {"jelouproduct2026", "jelou", "Jelouproduct2026"}

InitGate ==
    /\ files \in {[NoFiles EXCEPT !.analysis = t,
                                  !.signups = Project(t, {"company_id", "created_at"})] :
                     t \in OverviewTables(MaxOverviewCompanies)}
    /\ denyfile = NoDeny
    /\ cache = EmptyCache
    /\ data = NoData
    /\ served = NotServed
    /\ funnel = NoFunnel
    /\ signups_df = None
    /\ user_sessions_df = None
    /\ today = 0
    /\ retention = NotComputed
    /\ cohort = NotComputed
    /\ session_state = NewSession
    /\ overview = NoOverview
    /\ notebook = NoNotebook
    /\ pc = "files"

\* the visitor changes the text of the input the last run drew: the widget
\* value is stored under its key and the on_change callback runs, then the
\* script is run again
PasswordEntered ==
    /\ pc = "gate"
    /\ \E text \in PasswordTexts :
          /\ text # session_state["password"]
          /\ session_state' = password_entered(SetKey(session_state, "password", text))
    /\ pc' = "rerun"
    /\ UNCHANGED <<files, denyfile, cache, data, served, funnel, signups_df,
                   user_sessions_df, today, retention, cohort, overview, notebook>>

NextGate == PasswordEntered \/ Main \/ RenderOverview \/ RenderFunnel

SpecGate == InitGate /\ [][NextGate]_vars

\* the session holds password_correct = True
PassphraseAccepted ==
    /\ "password_correct" \in DOMAIN session_state
    /\ session_state["password_correct"] = TRUE

\* load_data ran or a page was drawn in this session
LoadedOrRendered ==
    \/ data.loaded
    \/ served.done
    \/ funnel # NoFunnel
    \/ overview.rendered
    \/ pc \in {"loaded", "flow", "overview"}

\* C23, the state part: nothing is loaded or drawn in a session that does not
\* hold password_correct = True, and a session that holds it does not hold
\* the text that was typed
C23_GateInvariant ==
    /\ LoadedOrRendered => PassphraseAccepted
    /\ PassphraseAccepted => "password" \notin DOMAIN session_state

\* C23: no data is loaded and no view is drawn before the correct passphrase
\* was entered; a run of main without password_correct = True stops at the
\* gate; password_correct, once True, stays True; the passphrase typed is
\* deleted from the session on success
C23_PassphraseGate ==
    /\ []C23_GateInvariant
    /\ [][/\ PassphraseAccepted => PassphraseAccepted'
          /\ (~PassphraseAccepted /\ pc \in {"files", "gate", "rerun"}
              /\ session_state' = GateDrawn(session_state))
                => (pc' = "gate" /\ data' = data /\ ~LoadedOrRendered')]_vars

\* a visitor typed a wrong text, then the passphrase, and a page was drawn
C23_Witness ==
    /\ pc \in {"flow", "overview"}
    /\ PassphraseAccepted
    /\ "password" \notin DOMAIN session_state
    /\ data.loaded

-----------------------------------------------------------------------------
(* The flag path against the session fallback *)

\* every flag of the table says whether the company's last session came that
\* period's offset or more after signup, and days_since_signup is today
\* minus the signup date
FlagsMatchSessions ==
    /\ FullCols \subseteq signups_df.cols
    /\ \A i \in 1..Len(signups_df.rows) :
          LET r == signups_df.rows[i]
          IN  /\ r.days_since_signup = AgeAt(r, today)
              /\ \A c \in FlagCols :
                    r[c] = ActiveAfter(r, user_sessions_df, OffsetOfFlag(c))

\* the session fallback on the same companies: the table without its flags
FallbackCurve ==
    calculate_retention_curve(Project(signups_df, SessionPathCols),
                              user_sessions_df, today)

\* the counts a curve holds for a period; none where it has no record of it
CountsOf(curve, period, eligible_key, retained_key) ==
    LET recs == {k \in 1..Len(curve.records) : curve.records[k].period = period}
    IN  IF recs = {}
        THEN [reported |-> FALSE]
        ELSE LET rec == curve.records[CHOOSE k \in recs : TRUE]
             IN  [reported |-> TRUE, eligible |-> rec[eligible_key],
                  retained |-> rec[retained_key]]

\* C24: for a company table whose flags and ages agree with the session
\* export, the curve from the flags and the curve from the sessions hold the
\* same eligible and retained counts for Day 0 and for every period
C24_PathsInterchangeable ==
    (pc = "curve" /\ FlagsMatchSessions) =>
        \A period \in {"Day 0"} \cup LadderPeriods :
            CountsOf(retention, period, "eligible", "retained")
              = CountsOf(FallbackCurve, period, "eligible_signups", "still_active")

\* one line of the session export per company and none without a company:
\* the case in which the two paths agree
OneLinePerCompany ==
    /\ NonEmpty(user_sessions_df)
    /\ \A i \in 1..Len(signups_df.rows) :
          Cardinality({j \in 1..Len(user_sessions_df.rows) :
                          ToNumeric(user_sessions_df.rows[j].company_id)
                              = signups_df.rows[i].company_id}) <= 1

C24_PathsAgreeOnOneLine ==
    (pc = "curve" /\ FlagsMatchSessions /\ OneLinePerCompany) =>
        \A period \in {"Day 0"} \cup LadderPeriods :
            CountsOf(retention, period, "eligible", "retained")
              = CountsOf(FallbackCurve, period, "eligible_signups", "still_active")

-----------------------------------------------------------------------------
(* Terminal volumes of the flow diagram *)

\* the companies of the view with a bot in state 1 on a production channel
WithProdChannel ==
    Len(SelectSeq(funnel.filtered.rows, LAMBDA r : r.has_prod_channel = TRUE))

\* C25: the volume of 'Live in Production' is the number of companies of the
\* view whose has_prod_channel flag is true
C25_ProductionIsProdChannel ==
    (Drawn /\ "has_prod_channel" \in funnel.filtered.cols) =>
        funnel.final_production = WithProdChannel

\* the cross-product companies of the view that neither validated in sandbox
\* nor created a template
CrossNeither ==
    Len(SelectSeq(funnel.filtered.rows,
                  LAMBDA r : r._cross_product /\ ~r._sandbox /\ ~r._templates))

\* C27: the link from Cross-Product to Dropped carries the cross-product
\* companies with neither a sandbox run nor a template, and is never negative
C27_CrossDropped ==
    Drawn => /\ funnel.cross_to_dropped = CrossNeither
             /\ funnel.cross_to_dropped >= 0

-----------------------------------------------------------------------------
(* The exclusion rules on a precomputed table *)

RuleCols == {"email", "slug", "company_name"}

\* create_corrected_analysis ran on the precomputed table of the files, under
\* the deny-list as it is
PrecomputedLoaded ==
    /\ pc = "loaded"
    /\ served.deny = denyfile
    /\ files.signups.present
    /\ IsPrecomputed(files.analysis)

\* C26: of a precomputed table, create_corrected_analysis keeps the rows that
\* none of the three rules matches and removes the others, which is the row
\* set the signup filter of load_data keeps of the same rows
C26_PrecomputedSameRules ==
    PrecomputedLoaded =>
        /\ Project(data.analysis, RuleCols).rows
             = Project(Filter(files.analysis, LAMBDA r : ~Excluded(r, denyfile)),
                       RuleCols).rows
        /\ Project(data.analysis, RuleCols).rows
             = Project(ExcludeSignups(files.analysis, denyfile), RuleCols).rows

-----------------------------------------------------------------------------
(* Consistency of the derived flags *)

\* the flags of one row of the joined table agree with each other
FlagsConsistent(r) ==
    /\ r.brain_active => (r.has_brain_studio /\ r.has_active)
    /\ (r.connect_active \/ r.connect_trialing) => r.has_connect
    /\ (r.has_brain_studio \/ r.has_connect) => r.has_subscription
    /\ r.has_prod_channel => r.has_bot
    /\ r.has_bot <=> (r.bot_count > 0)
    /\ r.actually_paid <=> (r.total_paid > 0)
    /\ (r.has_sandbox \/ r.has_prod_exec) => r.has_workflow
    /\ r.has_template_usage <=> (r.created_templates > 0)

\* C28: in the table built from signups the derived flags of every row are
\* consistent: brain_active implies has_brain_studio and has_active, a
\* Connect status implies has_connect, a product implies has_subscription,
\* has_prod_channel implies has_bot, has_bot is bot_count > 0, actually_paid
\* is total_paid > 0, a sandbox or production run implies has_workflow, and
\* has_template_usage is created_templates > 0
C28_FlagsConsistent ==
    BuiltFromSignups =>
        \A i \in 1..Len(data.analysis.rows) : FlagsConsistent(data.analysis.rows[i])

\* the same, for the rows that have a company id
C28_FlagsConsistentWithId ==
    BuiltFromSignups =>
        \A i \in 1..Len(data.analysis.rows) :
            ~IsNa(data.analysis.rows[i].company_id)
                => FlagsConsistent(data.analysis.rows[i])

-----------------------------------------------------------------------------
(* Bounds and monotonicity of the retention counts *)

\* the rate is retained / eligible * 100 and lies within [0, 100]
RateOf(rate, retained, eligible) ==
    /\ rate.num * eligible = retained * 100 * rate.den
    /\ 0 <= rate.num
    /\ rate.num <= 100 * rate.den

\* 0 <= retained <= eligible <= the companies of the group
CountsWithin(retained, eligible, companies) ==
    0 <= retained /\ retained <= eligible /\ eligible <= companies

\* the records of the curve: bounds, rate, and eligible not increasing along
\* the ladder
CurveBounded ==
    /\ \A k \in 1..Len(retention.records) :
          LET rec == retention.records[k]
          IN  /\ CountsWithin(RetainedOf(rec), EligibleOf(rec), Len(signups_df.rows))
              /\ RateOf(rec.retention_rate, RetainedOf(rec), EligibleOf(rec))
    /\ \A k \in 1..(Len(retention.records) - 1) :
          EligibleOf(retention.records[k + 1]) <= EligibleOf(retention.records[k])

\* the rows of the cohort table: the same, per signup week
CohortBounded ==
    \A w \in 1..Len(cohort.records) :
        LET row == cohort.records[w]
        IN  /\ \A k \in 1..Len(row.periods) :
                  /\ CountsWithin(row.periods[k].retained, row.periods[k].eligible,
                                  Cardinality(CohortOf(row.signup_week)))
                  /\ row.periods[k].eligible > 0
                        => RateOf(row.periods[k].rate, row.periods[k].retained,
                                  row.periods[k].eligible)
            /\ \A k \in 1..(Len(row.periods) - 1) :
                  row.periods[k + 1].eligible <= row.periods[k].eligible

\* C29: in every record of the curve (either path) and every row of the
\* cohort table, 0 <= retained <= eligible <= the companies of the group, the
\* rate is retained / eligible * 100 within [0, 100], and eligible does not
\* increase from one period of the ladder to the next
C29_CountsBounded ==
    /\ CurveReturned => CurveBounded
    /\ CohortReturned => CohortBounded

\* the same, where the curve was read from the flags
C29_FlagCountsBounded ==
    /\ (CurveReturned /\ FlagPath) => CurveBounded
    /\ CohortReturned => CohortBounded

-----------------------------------------------------------------------------
(* update_nb.py: the notebook patcher.  A text is the sequence of its       *)
(* characters, a cell source the sequence of its lines.                     *)

\* needle in source: the needle is a run of consecutive characters of source
In(needle, source) ==
    \E i \in 1..(Len(source) - Len(needle) + 1) :
        \A j \in 1..Len(needle) : source[i + j - 1] = needle[j]

\* line 10
mod_A_needle ==
    <<"s","e","s","s","i","o","n","s","_","d","u","r","a","t","i","o","n"," ","="," ",
      "l","o","a","d","_","i","f","_","e","x","i","s","t","s","(","'","s","e","s","s",
      "i","o","n","s","_","d","u","r","a","t","i","o","n",".","c","s","v","'",")">>

\* lines 11-16
mod_A_code ==
    <<
      <<"\n">>,
      <<"n","o","d","e","s","_","u","s","a","g","e"," ","="," ","l","o","a","d","_","i",
        "f","_","e","x","i","s","t","s","(","'","n","o","d","e","s","_","u","s","a","g",
        "e",".","c","s","v","'",")","\n">>,
      <<"i","f"," ","n","o","d","e","s","_","u","s","a","g","e"," ","i","s"," ","n","o",
        "t"," ","N","o","n","e",":","\n">>,
      <<" "," "," "," ","n","o","d","e","s","_","u","s","a","g","e","[","'","c","o","m",
        "p","a","n","y","_","i","d","'","]"," ","="," ","p","d",".","t","o","_","n","u",
        "m","e","r","i","c","(","n","o","d","e","s","_","u","s","a","g","e","[","'","c",
        "o","m","p","a","n","y","_","i","d","'","]",","," ","e","r","r","o","r","s","=",
        "'","c","o","e","r","c","e","'",")","\n">>
    >>

\* line 18
mod_B_needle ==
    <<"f","i","n","a","l"," ","="," ","f","i","n","a","l",".","m","e","r","g","e","(",
      "s","e","s","s","i","o","n","s","_","d","u","r","a","t","i","o","n",","," ","o",
      "n","=","'","c","o","m","p","a","n","y","_","i","d","'",","," ","h","o","w","=",
      "'","l","e","f","t","'",")">>

\* lines 19-29
mod_B_code ==
    <<
      <<"\n">>,
      <<" "," "," "," ","#"," ","M","e","r","g","e"," ","n","o","d","e","s"," ","u","s",
        "a","g","e"," ","i","f"," ","a","v","a","i","l","a","b","l","e","\n">>,
      <<" "," "," "," ","i","f"," ","'","n","o","d","e","s","_","u","s","a","g","e","'",
        " ","i","n"," ","d","i","r","(",")"," ","a","n","d"," ","n","o","d","e","s","_",
        "u","s","a","g","e"," ","i","s"," ","n","o","t"," ","N","o","n","e",":","\n">>,
      <<" "," "," "," "," "," "," "," ","#"," ","A","g","g","r","e","g","a","t","e"," ",
        "t","o","t","a","l"," ","n","o","d","e","s"," ","p","e","r"," ","c","o","m","p",
        "a","n","y","\n">>,
      <<" "," "," "," "," "," "," "," ","n","o","d","e","s","_","a","g","g"," ","="," ",
        "n","o","d","e","s","_","u","s","a","g","e",".","g","r","o","u","p","b","y","(",
        "'","c","o","m","p","a","n","y","_","i","d","'",")","[","'","n","o","d","e","s",
        "_","c","r","e","a","t","e","d","'","]",".","s","u","m","(",")",".","r","e","s",
        "e","t","_","i","n","d","e","x","(","n","a","m","e","=","'","t","o","t","a","l",
        "_","n","o","d","e","s","_","c","r","e","a","t","e","d","'",")","\n">>,
      <<" "," "," "," "," "," "," "," ","f","i","n","a","l"," ","="," ","f","i","n","a",
        "l",".","m","e","r","g","e","(","n","o","d","e","s","_","a","g","g",","," ","o",
        "n","=","'","c","o","m","p","a","n","y","_","i","d","'",","," ","h","o","w","=",
        "'","l","e","f","t","'",")","\n">>,
      <<" "," "," "," "," "," "," "," ","f","i","n","a","l","[","'","t","o","t","a","l",
        "_","n","o","d","e","s","_","c","r","e","a","t","e","d","'","]"," ","="," ","f",
        "i","n","a","l","[","'","t","o","t","a","l","_","n","o","d","e","s","_","c","r",
        "e","a","t","e","d","'","]",".","f","i","l","l","n","a","(","0",")",".","a","s",
        "t","y","p","e","(","i","n","t",")","\n">>,
      <<" "," "," "," ","e","l","s","e",":","\n">>,
      <<" "," "," "," "," "," "," "," ","f","i","n","a","l","[","'","t","o","t","a","l",
        "_","n","o","d","e","s","_","c","r","e","a","t","e","d","'","]"," ","="," ","0",
        "\n">>
    >>

\* the markers of lines 38 and 44: "nodes_usage =" and "nodes_agg ="
mod_A_marker ==
    <<"n","o","d","e","s","_","u","s","a","g","e"," ","=">>
mod_B_marker ==
    <<"n","o","d","e","s","_","a","g","g"," ","=">>

\* a variant of the test of Mod A that does not look for the marker
NeedsModA_NeedleOnly(source) == In(mod_A_needle, source)

\* line 38: the test of Mod A on the joined source of a cell
NeedsModA(source) == In(mod_A_needle, source) /\ ~In(mod_A_marker, source)

\* line 44: the test of Mod B, on the source as joined before Mod A
NeedsModB(source) == In(mod_B_needle, source) /\ ~In(mod_B_marker, source)

\* lines 33-47: one cell of the loop
PatchCell(cell) ==
    IF cell.cell_type = "code"
    THEN LET source == Flatten(cell.source)
             afterA == IF NeedsModA(source) THEN cell.source \o mod_A_code
                       ELSE cell.source
         IN  [cell EXCEPT !.source = IF NeedsModB(source) THEN afterA \o mod_B_code
                                     ELSE afterA]
    ELSE cell

\* the modifications lines 33-47 count for one cell
CellModified(cell) ==
    IF cell.cell_type = "code"
    THEN (IF NeedsModA(Flatten(cell.source)) THEN 1 ELSE 0)
         + (IF NeedsModB(Flatten(cell.source)) THEN 1 ELSE 0)
    ELSE 0

\* lines 31-55: one run of the script on the notebook file; the file is
\* written only when a modification was counted
UpdateNb ==
    /\ notebook.exists
    /\ LET cells_modified ==
               SumSeq([i \in 1..Len(notebook.cells) |-> CellModified(notebook.cells[i])])
       IN  notebook' =
               [exists |-> TRUE,
                cells |-> IF cells_modified > 0
                          THEN [i \in 1..Len(notebook.cells) |->
                                   PatchCell(notebook.cells[i])]
                          ELSE notebook.cells,
                ran |-> TRUE,
                cells_modified |-> cells_modified,
                saved |-> cells_modified > 0]
    /\ UNCHANGED <<files, denyfile, cache, data, served, funnel, signups_df,
                   user_sessions_df, today, retention, cohort, session_state,
                   overview, pc>>

-----------------------------------------------------------------------------
(* Notebooks of one or more cells, patched again and again *)

MaxCells == 2

\* lines of a cell: the two needles, a needle broken over two lines, lines
\* that already hold a marker, and a line the patcher does not look for
LineLoad ==
    <<"s","e","s","s","i","o","n","s","_","d","u","r","a","t","i","o","n"," ","="," ",
      "l","o","a","d","_","i","f","_","e","x","i","s","t","s","(","'","s","e","s","s",
      "i","o","n","s","_","d","u","r","a","t","i","o","n",".","c","s","v","'",")","\n">>
LineLoadHead ==
    <<"s","e","s","s","i","o","n","s","_","d","u","r","a","t","i","o","n"," ","="," ",
      "l","o","a","d","_","i","f","_">>
LineLoadTail ==
    <<"e","x","i","s","t","s","(","'","s","e","s","s","i","o","n","s","_","d","u","r",
      "a","t","i","o","n",".","c","s","v","'",")">>
LineMerge ==
    <<" "," "," "," ","f","i","n","a","l"," ","="," ","f","i","n","a","l",".","m","e",
      "r","g","e","(","s","e","s","s","i","o","n","s","_","d","u","r","a","t","i","o",
      "n",","," ","o","n","=","'","c","o","m","p","a","n","y","_","i","d","'",","," ",
      "h","o","w","=","'","l","e","f","t","'",")">>
LineUsage ==
    <<"n","o","d","e","s","_","u","s","a","g","e"," ","="," ","N","o","n","e","\n">>
LineAgg ==
    <<"n","o","d","e","s","_","a","g","g"," ","="," ","1">>
LinePlain ==
    <<"x"," ","="," ","1","\n">>

CodeCell(source) == [cell_type |-> "code", source |-> source]

SampleCells ==
    {CodeCell(<<LineLoad>>), CodeCell(<<LineMerge>>),
     CodeCell(<<LinePlain, LineLoad, LineMerge>>),
     CodeCell(<<LineLoadHead, LineLoadTail>>),
     CodeCell(<<LineLoad, LineUsage>>), CodeCell(<<LineAgg, LineMerge>>),
     CodeCell(<<LinePlain>>), CodeCell(<<>>),
     [cell_type |-> "markdown", source |-> <<LineLoad>>]}

Notebooks(n) ==
    UNION {[1..k -> SampleCells] : k \in 1..n}

InitNotebook ==
    /\ files = NoFiles
    /\ denyfile = NoDeny
    /\ cache = EmptyCache
    /\ data = NoData
    /\ served = NotServed
    /\ funnel = NoFunnel
    /\ signups_df = None
    /\ user_sessions_df = None
    /\ today = 0
    /\ retention = NotComputed
    /\ cohort = NotComputed
    /\ session_state = NewSession
    /\ overview = NoOverview
    /\ notebook \in {[exists |-> TRUE, cells |-> cells, ran |-> FALSE,
                      cells_modified |-> 0, saved |-> FALSE] :
                        cells \in Notebooks(MaxCells)}
    /\ pc = "files"

NextNotebook == UpdateNb

SpecNotebook == InitNotebook /\ [][NextNotebook]_vars

\* how many times the lines `code` were appended to the source `before` to
\* give `after`, if at all: 0 or 1, and 2 for anything else
Appended(before, after, code) ==
    IF after = before THEN 0
    ELSE IF after = before \o code THEN 1
    ELSE 2

\* the source of a cell after a run is its source before, followed by Mod A
\* at most once and by Mod B at most once, and only a code cell that holds
\* the needle gets the modification
PatchedAtMostOnce(before, after) ==
    \E a \in {0, 1} : \E b \in {0, 1} :
        /\ after.source = before.source
                          \o (IF a = 1 THEN mod_A_code ELSE <<>>)
                          \o (IF b = 1 THEN mod_B_code ELSE <<>>)
        /\ a = 1 => (before.cell_type = "code"
                     /\ In(mod_A_needle, Flatten(before.source)))
        /\ b = 1 => (before.cell_type = "code"
                     /\ In(mod_B_needle, Flatten(before.source)))

\* C30: a run on a notebook that a run has already patched appends nothing,
\* counts no modification and does not write the file; and any run appends
\* each modification at most once per code cell that holds its needle
C30_PatcherIdempotent ==
    [][/\ notebook.ran => /\ notebook'.cells = notebook.cells
                          /\ notebook'.cells_modified = 0
                          /\ ~notebook'.saved
       /\ Len(notebook'.cells) = Len(notebook.cells)
       /\ \A i \in 1..Len(notebook.cells) :
             PatchedAtMostOnce(notebook.cells[i], notebook'.cells[i])]_vars

\* a second run followed a run that applied Mod A and Mod B
C30_Witness ==
    /\ notebook.exists
    /\ notebook.ran
    /\ notebook.cells_modified = 0
    /\ ~notebook.saved
    /\ \E i \in 1..Len(notebook.cells) :
          /\ In(mod_A_marker, Flatten(notebook.cells[i].source))
          /\ In(mod_A_needle, Flatten(notebook.cells[i].source))
    /\ \E i \in 1..Len(notebook.cells) :
          /\ In(mod_B_marker, Flatten(notebook.cells[i].source))
          /\ In(mod_B_needle, Flatten(notebook.cells[i].source))

====
